---- MODULE Spec2Model ----
(***************************************************************************)
(* Trip ledger and availability resolver of the fleet server               *)
(* (supabase/functions/server/index.tsx).  The key-value table             *)
(* kv_store_e4206deb is the shared state; every request handler is a       *)
(* sequence of steps, one per read or write of a trip row or index row,    *)
(* that interleave freely with the steps of the other requests.            *)
(***************************************************************************)
EXTENDS Integers, Sequences, FiniteSets, TLC

\* ------------------------------------------------------------------ bounds
MaxRequests == 3    \* requests the server accepts in one run
MaxLegacy   == 3    \* trip rows in the stores the resolver is applied to

\* ------------------------------------------------------------ input sets
Users     == {"d1", "d2", "adm", "sup"}
NoToken   == ""                       \* request without any credential
Plates    == {"A", "B"}
BodyPlates == {"", "A"}               \* body.vehiclePlate: missing or a plate
Creators  == {"d1"}                   \* accounts that start trips
KmStarts  == {<<>>, <<10>>}           \* body.kmStart: missing, 10
KmEnds    == {<<>>, <<0>>, <<5>>}       \* body.kmEnd: missing, 0, 5
TimeEnds  == {<<>>, <<"17:00">>}      \* body.timeEnd: missing or a time
GhostCallers == {"d1", "adm"}         \* accounts that delete ids without a record
Reqs      == {"r1", "r2"}             \* handlers that run at the same time

NewUsers  == {"n1"}                    \* accounts that signup can create
Accounts  == Users \cup NewUsers

\* The roster GET /vehicles annotates (vehicle:<plate> records).
Vehicles == Plates

\* ------------------------------------------------------- JavaScript values
\* !x for the optional values of a request body (undefined, null, 0, "").
Falsy(x) == x = <<>> \/ x = <<0>>

\* new Date(ms).toISOString(): the millisecond instant as an ISO string.
ToISOString(ms) == [kind |-> "iso", ms |-> ms]

\* new Date(s).getTime(): the instant of a well-formed string, NaN (<<>>)
\* for any other string.
DateGetTime(s) == IF s.kind = "iso" THEN <<s.ms>> ELSE <<>>

\* createdAt of rows written by earlier versions: absent or unparseable.
NoDate  == [kind |-> "none", ms |-> 0]
BadDate == [kind |-> "bad", ms |-> 0]

\* ------------------------------------------------------------ trip record
NewTrip(tripId, user, vehiclePlate, kmStart, createdAt) ==
  [id |-> tripId, userId |-> user, vehiclePlate |-> vehiclePlate,
   kmStart |-> kmStart, kmEnd |-> <<>>, timeEnd |-> <<>>,
   status |-> "in_progress", createdAt |-> createdAt, completedAt |-> <<>>]

\* ---------------------------------------------------- availability resolver
GetTimestamp(trip) ==
  IF trip.createdAt.kind # "none"
  THEN LET t == DateGetTime(trip.createdAt) IN IF t = <<>> THEN 0 ELSE t[1]
  ELSE 0

\* A comparator without the tie-break on status.
CompareTripsPostNoTieBreak(a, b) ==
  LET timeA == GetTimestamp(a)
      timeB == GetTimestamp(b)
  IN  IF timeA # timeB THEN timeB - timeA ELSE 0

\* Comparator of POST /trips.
CompareTripsPost(a, b) ==
  LET timeA == GetTimestamp(a)
      timeB == GetTimestamp(b)
  IN  IF timeA # timeB THEN timeB - timeA
      ELSE IF a.status = "completed" /\ b.status # "completed" THEN -1
      ELSE IF b.status = "completed" /\ a.status # "completed" THEN 1
      ELSE 0

\* A comparator that ranks the oldest trip first.
CompareTripsVehiclesOldestFirst(a, b) ==
  LET timeA == GetTimestamp(a)
      timeB == GetTimestamp(b)
  IN  IF timeA # timeB THEN timeA - timeB
      ELSE IF a.status = "completed" /\ b.status # "completed" THEN -1
      ELSE IF b.status = "completed" /\ a.status # "completed" THEN 1
      ELSE 0

\* Comparator of GET /vehicles.
CompareTripsVehicles(a, b) ==
  LET timeA == GetTimestamp(a)
      timeB == GetTimestamp(b)
  IN  IF timeA # timeB THEN timeB - timeA
      ELSE IF a.status = "completed" /\ b.status # "completed" THEN -1
      ELSE IF b.status = "completed" /\ a.status # "completed" THEN 1
      ELSE 0

\* Comparator of GET /trips: a difference of two getTime() values, NaN (which
\* sort takes as 0) when either createdAt is missing or unparseable.
CompareTripsList(a, b) ==
  LET timeA == DateGetTime(a.createdAt)
      timeB == DateGetTime(b.createdAt)
  IN  IF timeA = <<>> \/ timeB = <<>> THEN 0 ELSE timeB[1] - timeA[1]

CompareTrips(handler, a, b) ==
  IF handler = "post" THEN CompareTripsPost(a, b)
  ELSE IF handler = "list" THEN CompareTripsList(a, b)
  ELSE CompareTripsVehicles(a, b)

\* Array.prototype.sort: a stable sort by the comparator.
RECURSIVE SortInsert(_, _, _)
SortInsert(handler, sorted, x) ==
  IF sorted = <<>> THEN <<x>>
  ELSE LET n == Len(sorted) IN
       IF CompareTrips(handler, sorted[n], x) > 0
       THEN Append(SortInsert(handler, SubSeq(sorted, 1, n - 1), x), sorted[n])
       ELSE Append(sorted, x)

RECURSIVE ArraySort(_, _)
ArraySort(handler, s) ==
  IF s = <<>> THEN <<>>
  ELSE LET n == Len(s) IN
       SortInsert(handler, ArraySort(handler, SubSeq(s, 1, n - 1)), s[n])

SeqFilter(s, plate) == SelectSeq(s, LAMBDA t : t.vehiclePlate = plate)

\* POST /trips: the trip that decides whether the plate is occupied.
PostLatestTrip(rows, vehiclePlate) ==
  LET allTrips == ArraySort("post", SeqFilter(rows, vehiclePlate))
  IN  IF allTrips = <<>> THEN <<>> ELSE <<allTrips[1]>>

\* GET /vehicles: vehicleTripsMap, activeTripMap and the annotation.
ActiveTripOf(rows, plate) ==
  LET trips0 == SeqFilter(SelectSeq(rows, LAMBDA t : t.vehiclePlate # ""), plate)
      sortedTrips == ArraySort("vehicles", trips0)
  IN  IF sortedTrips # <<>> /\ sortedTrips[1].status = "in_progress"
      THEN <<sortedTrips[1]>> ELSE <<>>

VehiclesWithStatus(rows) ==
  [v \in Vehicles |->
     [isAvailable |-> ActiveTripOf(rows, v) = <<>>,
      activeTrip  |-> IF ActiveTripOf(rows, v) = <<>> THEN <<>> ELSE <<ActiveTripOf(rows, v)[1].id>>]]

\* -------------------------------------------- the ordering the resolver is to implement
\* createdAt as an instant, a missing or unparseable one counting as 0.
CreatedInstant(t) == IF t.createdAt.kind = "iso" THEN t.createdAt.ms ELSE 0

\* The trips of the plate with the greatest creation instant.
NewestTrips(store, plate) ==
  {i \in DOMAIN store :
     /\ store[i].vehiclePlate = plate
     /\ \A j \in DOMAIN store :
          store[j].vehiclePlate = plate => CreatedInstant(store[j]) <= CreatedInstant(store[i])}

\* The plate's first-ranked trip is in progress: no completed trip among the newest.
Occupied(store, plate) ==
  /\ NewestTrips(store, plate) # {}
  /\ \A i \in NewestTrips(store, plate) : store[i].status = "in_progress"

\* ------------------------------------------------------------------- state
VARIABLES
  trips,      \* the trip:<id> rows: a function from the stored ids to records
  userTrip,   \* the user_trip:<user>:<id> rows, as pairs <<user, id>>
  now,        \* the instant new Date() returned last, in milliseconds
  nextId,     \* the next id crypto.randomUUID() returns
  served,     \* number of requests accepted so far
  pc,         \* per handler: the store operation it is about to issue
  loc,        \* per handler: its local variables
  resp,       \* the response the last step sent, NoResp when it sent none
  vehicleRows, \* the vehicle:<plate> rows: a function from plates to records
  oil,        \* the vehicle:<plate>:last_oil_change rows: plate to km
  history,    \* the history:maintenance:<plate>:<id> rows, a set of entries
  settings,   \* settings:admin_registration_enabled: <<>> when absent, else <<value>>
  roles,      \* identity service: user_metadata.role per account, "none" when
              \* there is no such user
  calls       \* the services the last step called: "identity", "store"

\* The rows and users that the trip handlers neither read (but for the role
\* of the caller) nor write.
adminVars == <<vehicleRows, oil, history, settings, roles>>

vars == <<trips, userTrip, now, nextId, served, pc, loc, resp, adminVars, calls>>

\* user_metadata.role of the user the identity service resolves a token to
RoleOf(u) == roles[u]

\* The accounts the server starts with: two drivers, an admin, a super admin.
FirstRoles ==
  [u \in Accounts |-> CASE u = "adm" -> "admin"
                        [] u = "sup" -> "super_admin"
                        [] u \in NewUsers -> "none"
                        [] OTHER     -> "driver"]

\* Orders in which a select without ORDER BY can return the rows of ids S.
RECURSIVE Orders(_)
Orders(S) ==
  IF S = {} THEN {<<>>}
  ELSE UNION {{<<x>> \o o : o \in Orders(S \ {x})} : x \in S}

RowsIn(order) == [i \in 1..Len(order) |-> trips[order[i]]]

\* Ids a client can name: those handed out so far and one never handed out.
TripIds == 1..nextId

Put(store, key, value) ==
  [k \in DOMAIN store \cup {key} |-> IF k = key THEN value ELSE store[k]]

Remove(store, key) == [k \in DOMAIN store \ {key} |-> store[k]]

NoLoc == [user |-> "", tripId |-> 0, vehiclePlate |-> "", trip |-> <<>>,
          tripsError |-> FALSE, occupied |-> FALSE, tripIds |-> {},
          plateParam |-> <<>>, plate |-> <<>>, vehicle |-> <<>>, body |-> <<>>,
          value |-> <<>>, target |-> "", role |-> "", requesterRole |-> ""]

NoBody == [empty |-> TRUE]

\* { error: 'No token provided' }
NoTokenBody == [error |-> "No token provided"]

NoResp == [op |-> "none", status |-> 0, body |-> NoBody]

Init ==
  /\ trips = <<>>
  /\ userTrip = {}
  /\ now = 1
  /\ nextId = 1
  /\ served = 0
  /\ pc = [r \in Reqs |-> "idle"]
  /\ loc = [r \in Reqs |-> NoLoc]
  /\ resp = NoResp
  /\ vehicleRows = <<>>
  /\ oil = <<>>
  /\ history = {}
  /\ settings = <<>>
  /\ roles = FirstRoles
  /\ calls = {}

\* Handler r is free and there is a request to take.
Free(r) == pc[r] = "idle" /\ served < MaxRequests

\* A free handler takes the next request.
Accept(r) ==
  /\ Free(r)
  /\ served' = served + 1

\* The handler returns: its locals are gone.
Return(r, op, status, body) ==
  /\ pc' = [pc EXCEPT ![r] = "idle"]
  /\ loc' = [loc EXCEPT ![r] = NoLoc]
  /\ resp' = [op |-> op, status |-> status, body |-> body]

\* The handler goes on to its next store operation.
Goto(r, label, locals) ==
  /\ pc' = [pc EXCEPT ![r] = label]
  /\ loc' = [loc EXCEPT ![r] = locals]
  /\ resp' = NoResp

\* A validateUser that asks the identity service about an empty token.
FirstCallsEager(token, refused) ==
  IF refused THEN {"identity"} ELSE {"identity", "store"}

\* The services a handler has called when its first step ends: none when
\* validateUser finds no token, the identity service alone when the handler
\* turns the request down before its first query, else both.
FirstCalls(token, refused) ==
  IF token = NoToken THEN {}
  ELSE IF refused THEN {"identity"}
  ELSE {"identity", "store"}

\* What new Date() can return: the instant of the last reading or a later one.
Dates == {now, now + 1}

\* ------------------------------------------------------------- POST /trips
\* validateUser, the check of the body, select value where key like 'trip:%'
\* and the availability check on its rows.
PostTripsScan(r, token, vehiclePlate, kmStart, tripsError, order, date) ==
  /\ Accept(r)
  /\ IF token = NoToken
     THEN Return(r, "postTrips", 401, NoTokenBody) /\ UNCHANGED <<now, nextId>>
     ELSE IF vehiclePlate = "" \/ kmStart = <<>>
     THEN Return(r, "postTrips", 400, NoBody) /\ UNCHANGED <<now, nextId>>
     ELSE LET latestTrip == PostLatestTrip(RowsIn(order), vehiclePlate) IN
          IF ~tripsError /\ latestTrip # <<>> /\ latestTrip[1].status = "in_progress"
          THEN /\ Return(r, "postTrips", 409, [userName |-> latestTrip[1].userId,
                                               vehiclePlate |-> vehiclePlate])
               /\ UNCHANGED <<now, nextId>>
          ELSE \* crypto.randomUUID(), new Date().toISOString() and the trip object
               /\ nextId' = nextId + 1
               /\ now' = date
               /\ Goto(r, "postUpsertTrip",
                       [NoLoc EXCEPT !.user = token, !.vehiclePlate = vehiclePlate,
                                     !.tripId = nextId,
                                     !.trip = <<NewTrip(nextId, token, vehiclePlate,
                                                        kmStart[1], ToISOString(date))>>,
                                     !.tripsError = tripsError,
                                     !.occupied = Occupied(trips, vehiclePlate)])
  /\ UNCHANGED <<trips, userTrip, adminVars>>
  /\ calls' = FirstCalls(token, vehiclePlate = "" \/ kmStart = <<>>)

\* The inputs of a request that the handler gets to look at.
PostTrips(r) ==
  /\ Free(r)
  /\ \/ PostTripsScan(r, NoToken, "", <<>>, FALSE, <<>>, now)
     \/ \E token \in Creators :
          \/ \E vehiclePlate \in BodyPlates, kmStart \in KmStarts :
               /\ vehiclePlate = "" \/ kmStart = <<>>
               /\ PostTripsScan(r, token, vehiclePlate, kmStart, FALSE, <<>>, now)
          \/ \E vehiclePlate \in BodyPlates \ {""}, kmStart \in KmStarts \ {<<>>}, date \in Dates :
               \/ PostTripsScan(r, token, vehiclePlate, kmStart, TRUE, <<>>, date)
               \/ \E order \in Orders(DOMAIN trips) :
                    PostTripsScan(r, token, vehiclePlate, kmStart, FALSE, order, date)

\* A write that looks at the plate again before it stores the trip.
PostTripsUpsertTripRechecked(r) ==
  /\ pc[r] = "postUpsertTrip"
  /\ IF Occupied(trips, loc[r].vehiclePlate)
     THEN Return(r, "postTrips", 409, NoBody) /\ UNCHANGED trips
     ELSE /\ trips' = Put(trips, loc[r].tripId, loc[r].trip[1])
          /\ Goto(r, "postUpsertIndex", loc[r])
  /\ UNCHANGED <<userTrip, now, nextId, served, adminVars>>
  /\ calls' = {"store"}

\* upsert of trip:<id>.
PostTripsUpsertTrip(r) ==
  /\ pc[r] = "postUpsertTrip"
  /\ \E tripError \in BOOLEAN :
       IF tripError
       THEN Return(r, "postTrips", 500, NoBody) /\ UNCHANGED trips
       ELSE /\ trips' = Put(trips, loc[r].tripId, loc[r].trip[1])
            /\ Goto(r, "postUpsertIndex", loc[r])
  /\ UNCHANGED <<userTrip, now, nextId, served, adminVars>>
  /\ calls' = {"store"}

\* An index write that takes the trip record back when it fails.
PostTripsUpsertIndexRollback(r) ==
  /\ pc[r] = "postUpsertIndex"
  /\ \E indexError \in BOOLEAN :
       IF indexError
       THEN /\ trips' = Remove(trips, loc[r].tripId)
            /\ Return(r, "postTrips", 500, NoBody) /\ UNCHANGED userTrip
       ELSE /\ userTrip' = userTrip \cup {<<loc[r].user, loc[r].tripId>>}
            /\ Return(r, "postTrips", 200, NoBody) /\ UNCHANGED trips
  /\ UNCHANGED <<now, nextId, served, adminVars>>
  /\ calls' = {"store"}

\* upsert of user_trip:<user>:<id>.
PostTripsUpsertIndex(r) ==
  /\ pc[r] = "postUpsertIndex"
  /\ \E indexError \in BOOLEAN :
       IF indexError
       THEN Return(r, "postTrips", 500, NoBody) /\ UNCHANGED userTrip
       ELSE /\ userTrip' = userTrip \cup {<<loc[r].user, loc[r].tripId>>}
            /\ Return(r, "postTrips", 200, NoBody)
  /\ UNCHANGED <<trips, now, nextId, served, adminVars>>
  /\ calls' = {"store"}

\* A completion that also lets the role admin through.
CompleteTripReadByAdmin(r, token, tripId, kmEnd, timeEnd, tripError, date) ==
  /\ Accept(r)
  /\ IF token = NoToken THEN Return(r, "completeTrip", 401, NoTokenBody) /\ UNCHANGED now
     ELSE IF Falsy(kmEnd) \/ timeEnd = <<>>
     THEN Return(r, "completeTrip", 400, NoBody) /\ UNCHANGED now
     ELSE IF tripError THEN Return(r, "completeTrip", 500, NoBody) /\ UNCHANGED now
     ELSE IF tripId \notin DOMAIN trips
     THEN Return(r, "completeTrip", 404, NoBody) /\ UNCHANGED now
     ELSE IF trips[tripId].userId # token /\ RoleOf(token) # "admin"
     THEN Return(r, "completeTrip", 403, NoBody) /\ UNCHANGED now
     ELSE /\ now' = date
          /\ Goto(r, "completeUpsert",
                  [NoLoc EXCEPT !.user = token, !.tripId = tripId,
                                !.trip = <<[trips[tripId] EXCEPT
                                              !.kmEnd = kmEnd,
                                              !.timeEnd = timeEnd,
                                              !.status = "completed",
                                              !.completedAt = <<ToISOString(date)>>]>>])
  /\ UNCHANGED <<trips, userTrip, nextId, adminVars>>
  /\ calls' = FirstCalls(token, Falsy(kmEnd) \/ timeEnd = <<>>)

\* A completion that does not look at the body before it reads the trip.
CompleteTripReadUnvalidated(r, token, tripId, kmEnd, timeEnd, tripError, date) ==
  /\ Accept(r)
  /\ IF token = NoToken THEN Return(r, "completeTrip", 401, NoTokenBody) /\ UNCHANGED now
     ELSE IF tripError THEN Return(r, "completeTrip", 500, NoBody) /\ UNCHANGED now
     ELSE IF tripId \notin DOMAIN trips
     THEN Return(r, "completeTrip", 404, NoBody) /\ UNCHANGED now
     ELSE IF trips[tripId].userId # token
     THEN Return(r, "completeTrip", 403, NoBody) /\ UNCHANGED now
     ELSE /\ now' = date
          /\ Goto(r, "completeUpsert",
                  [NoLoc EXCEPT !.user = token, !.tripId = tripId,
                                !.trip = <<[trips[tripId] EXCEPT
                                              !.kmEnd = kmEnd,
                                              !.timeEnd = timeEnd,
                                              !.status = "completed",
                                              !.completedAt = <<ToISOString(date)>>]>>])
  /\ UNCHANGED <<trips, userTrip, nextId, adminVars>>
  /\ calls' = FirstCalls(token, FALSE)

\* ------------------------------------------------ PUT /trips/:id/complete
\* validateUser, the check of the body, select of trip:<id>, the ownership
\* check and updatedTrip = {...trip, kmEnd, timeEnd, status, completedAt}.
CompleteTripRead(r, token, tripId, kmEnd, timeEnd, tripError, date) ==
  /\ Accept(r)
  /\ IF token = NoToken THEN Return(r, "completeTrip", 401, NoTokenBody) /\ UNCHANGED now
     ELSE IF Falsy(kmEnd) \/ timeEnd = <<>>
     THEN Return(r, "completeTrip", 400, NoBody) /\ UNCHANGED now
     ELSE IF tripError THEN Return(r, "completeTrip", 500, NoBody) /\ UNCHANGED now
     ELSE IF tripId \notin DOMAIN trips
     THEN Return(r, "completeTrip", 404, NoBody) /\ UNCHANGED now
     ELSE IF trips[tripId].userId # token
     THEN Return(r, "completeTrip", 403, NoBody) /\ UNCHANGED now
     ELSE /\ now' = date
          /\ Goto(r, "completeUpsert",
                  [NoLoc EXCEPT !.user = token, !.tripId = tripId,
                                !.trip = <<[trips[tripId] EXCEPT
                                              !.kmEnd = kmEnd,
                                              !.timeEnd = timeEnd,
                                              !.status = "completed",
                                              !.completedAt = <<ToISOString(date)>>]>>])
  /\ UNCHANGED <<trips, userTrip, nextId, adminVars>>
  /\ calls' = FirstCalls(token, Falsy(kmEnd) \/ timeEnd = <<>>)

\* The inputs of a request that the handler gets to look at: a request
\* that is refused before the trip is read is refused for every caller and id.
CompleteTrip(r) ==
  /\ Free(r)
  /\ \/ CompleteTripRead(r, NoToken, 1, <<>>, <<>>, FALSE, now)
     \/ \E token \in Creators, kmEnd \in KmEnds, timeEnd \in TimeEnds :
          \/ /\ Falsy(kmEnd) \/ timeEnd = <<>>
             /\ CompleteTripRead(r, token, 1, kmEnd, timeEnd, FALSE, now)
          \/ /\ ~Falsy(kmEnd) /\ timeEnd # <<>>
             /\ CompleteTripRead(r, token, 1, kmEnd, timeEnd, TRUE, now)
     \/ \E token \in Users, tripId \in TripIds, kmEnd \in KmEnds, timeEnd \in TimeEnds,
           date \in Dates :
          /\ ~Falsy(kmEnd) /\ timeEnd # <<>>
          /\ date = now \/ (tripId \in DOMAIN trips /\ trips[tripId].userId = token)
          /\ CompleteTripRead(r, token, tripId, kmEnd, timeEnd, FALSE, date)

\* upsert of trip:<id> with updatedTrip.
CompleteTripUpsert(r) ==
  /\ pc[r] = "completeUpsert"
  /\ \E updateError \in BOOLEAN :
       IF updateError
       THEN Return(r, "completeTrip", 500, NoBody) /\ UNCHANGED trips
       ELSE /\ trips' = Put(trips, loc[r].tripId, loc[r].trip[1])
            /\ Return(r, "completeTrip", 200, NoBody)
  /\ UNCHANGED <<userTrip, now, nextId, served, adminVars>>
  /\ calls' = {"store"}

\* A delete that answers 404 for an id without a trip record.
DeleteTripReadNotFound(r, token, tripId, tripError) ==
  /\ Accept(r)
  /\ IF token = NoToken THEN Return(r, "deleteTrip", 401, NoTokenBody)
     ELSE IF tripError THEN Return(r, "deleteTrip", 500, NoBody)
     ELSE IF tripId \notin DOMAIN trips THEN Return(r, "deleteTrip", 404, NoBody)
     ELSE IF trips[tripId].userId # token /\ RoleOf(token) # "admin"
          THEN Return(r, "deleteTrip", 403, NoBody)
     ELSE Goto(r, "deleteTripRow", [NoLoc EXCEPT !.user = token, !.tripId = tripId,
                                                 !.trip = <<trips[tripId]>>])
  /\ UNCHANGED <<trips, userTrip, now, nextId, adminVars>>
  /\ calls' = FirstCalls(token, FALSE)

\* -------------------------------------------------------- DELETE /trips/:id
\* validateUser, select of trip:<id>, the ghost branch and the permission check.
DeleteTripRead(r, token, tripId, tripError) ==
  /\ Accept(r)
  /\ IF token = NoToken THEN Return(r, "deleteTrip", 401, NoTokenBody)
     ELSE IF tripError THEN Return(r, "deleteTrip", 500, NoBody)
     ELSE IF tripId \notin DOMAIN trips
          THEN Goto(r, "deleteGhost", [NoLoc EXCEPT !.user = token, !.tripId = tripId])
     ELSE IF trips[tripId].userId # token /\ RoleOf(token) # "admin"
          THEN Return(r, "deleteTrip", 403, NoBody)
     ELSE Goto(r, "deleteTripRow", [NoLoc EXCEPT !.user = token, !.tripId = tripId,
                                                 !.trip = <<trips[tripId]>>])
  /\ UNCHANGED <<trips, userTrip, now, nextId, adminVars>>
  /\ calls' = FirstCalls(token, FALSE)

\* The inputs of a request that the handler gets to look at: for an id
\* without a trip record the caller only names the index row to clean up.
DeleteTrip(r) ==
  /\ Free(r)
  /\ \/ DeleteTripRead(r, NoToken, 1, FALSE)
     \/ \E token \in Creators : DeleteTripRead(r, token, 1, TRUE)
     \/ \E token \in Users, tripId \in DOMAIN trips : DeleteTripRead(r, token, tripId, FALSE)
     \/ \E token \in GhostCallers, tripId \in TripIds \ DOMAIN trips :
          DeleteTripRead(r, token, tripId, FALSE)

\* delete of user_trip:<caller>:<id>; its error is only logged.
DeleteTripGhost(r) ==
  /\ pc[r] = "deleteGhost"
  /\ \E indexError \in BOOLEAN :
       userTrip' = IF indexError THEN userTrip
                   ELSE userTrip \ {<<loc[r].user, loc[r].tripId>>}
  /\ Return(r, "deleteTrip", 200, [message |-> "Trip cleaned up (ghost)"])
  /\ UNCHANGED <<trips, now, nextId, served, adminVars>>
  /\ calls' = {"store"}

\* delete of trip:<id>.
DeleteTripRow(r) ==
  /\ pc[r] = "deleteTripRow"
  /\ \E delError \in BOOLEAN :
       IF delError
       THEN Return(r, "deleteTrip", 500, NoBody) /\ UNCHANGED trips
       ELSE /\ trips' = Remove(trips, loc[r].tripId)
            /\ Goto(r, "deleteIndex", loc[r])
  /\ UNCHANGED <<userTrip, now, nextId, served, adminVars>>
  /\ calls' = {"store"}

\* delete of user_trip:<owner>:<id>; its result is not looked at.
DeleteTripIndex(r) ==
  /\ pc[r] = "deleteIndex"
  /\ \E indexError \in BOOLEAN :
       userTrip' = IF indexError THEN userTrip
                   ELSE userTrip \ {<<loc[r].trip[1].userId, loc[r].tripId>>}
  /\ Return(r, "deleteTrip", 200, NoBody)
  /\ UNCHANGED <<trips, now, nextId, served, adminVars>>
  /\ calls' = {"store"}

\* ---------------------------------------------------------------- GET /trips
\* The Map of GET /trips: one entry per id, in the order the ids first come up;
\* a later row replaces the entry when it is completed and the entry is not, or
\* when both are completed and its completedAt is later.
RECURSIVE TripsMap(_)
TripsMap(rawTrips) ==
  IF rawTrips = <<>> THEN <<>>
  ELSE LET n     == Len(rawTrips)
           trip  == rawTrips[n]
           map   == TripsMap(SubSeq(rawTrips, 1, n - 1))
           at    == {k \in 1..Len(map) : map[k].id = trip.id}
           later(x, y) ==
             (IF x.completedAt = <<>> \/ DateGetTime(x.completedAt[1]) = <<>>
              THEN 0 ELSE DateGetTime(x.completedAt[1])[1])
             > (IF y.completedAt = <<>> \/ DateGetTime(y.completedAt[1]) = <<>>
                THEN 0 ELSE DateGetTime(y.completedAt[1])[1])
       IN  IF at = {} THEN Append(map, trip)
           ELSE LET k == CHOOSE j \in at : TRUE IN
                IF trip.status = "completed" /\ map[k].status # "completed"
                THEN [map EXCEPT ![k] = trip]
                ELSE IF trip.status = "completed" /\ map[k].status = "completed"
                        /\ later(trip, map[k])
                THEN [map EXCEPT ![k] = trip]
                ELSE map

\* A scan of the index that does not look at whose entries it reads.
GetTripsKeysAllUsers(r, token, keysError) ==
  /\ Accept(r)
  /\ IF token = NoToken THEN Return(r, "getTrips", 401, NoTokenBody)
     ELSE IF keysError THEN Return(r, "getTrips", 500, NoBody)
     ELSE LET tripIds == {e[2] : e \in userTrip} IN
          IF tripIds = {} THEN Return(r, "getTrips", 200, [trips |-> <<>>])
          ELSE Goto(r, "tripsFetch", [NoLoc EXCEPT !.user = token, !.tripIds = tripIds])
  /\ UNCHANGED <<trips, userTrip, now, nextId, adminVars>>
  /\ calls' = FirstCalls(token, FALSE)

\* validateUser and select value where key like 'user_trip:<user>:%'.
GetTripsKeys(r, token, keysError) ==
  /\ Accept(r)
  /\ IF token = NoToken THEN Return(r, "getTrips", 401, NoTokenBody)
     ELSE IF keysError THEN Return(r, "getTrips", 500, NoBody)
     ELSE LET tripIds == {e[2] : e \in {x \in userTrip : x[1] = token}} IN
          IF tripIds = {} THEN Return(r, "getTrips", 200, [trips |-> <<>>])
          ELSE Goto(r, "tripsFetch", [NoLoc EXCEPT !.user = token, !.tripIds = tripIds])
  /\ UNCHANGED <<trips, userTrip, now, nextId, adminVars>>
  /\ calls' = FirstCalls(token, FALSE)

GetTrips(r) ==
  /\ Free(r)
  /\ \/ GetTripsKeys(r, NoToken, FALSE)
     \/ \E token \in Creators : GetTripsKeys(r, token, TRUE)
     \/ \E token \in Users : GetTripsKeys(r, token, FALSE)

\* select value where key in (trip:<id>, ...), the Map by id and the sort; the
\* response lists the trips by their ids.
GetTripsRows(r, tripsError, order) ==
  /\ pc[r] = "tripsFetch"
  /\ IF tripsError THEN Return(r, "getTrips", 500, NoBody)
     ELSE LET sorted == ArraySort("list", TripsMap(RowsIn(order)))
          IN  Return(r, "getTrips", 200, [trips |-> [k \in 1..Len(sorted) |-> sorted[k].id]])
  /\ UNCHANGED <<trips, userTrip, now, nextId, served, adminVars>>
  /\ calls' = {"store"}

GetTripsFetch(r) ==
  \/ GetTripsRows(r, TRUE, <<>>)
  \/ \E order \in Orders(loc[r].tripIds \cap DOMAIN trips) : GetTripsRows(r, FALSE, order)

\* ------------------------------------------------------------ GET /vehicles
\* validateUser, select value where key like 'vehicle:%', select value where
\* key like 'trip:%' (its error is only logged) and the annotation of the
\* roster.  The vehicle rows are written by no operation of this model, so the
\* two reads are one step.
GetVehiclesScan(r, token, vehiclesError, tripsError, order) ==
  /\ Accept(r)
  /\ IF token = NoToken THEN Return(r, "getVehicles", 401, NoTokenBody)
     ELSE IF vehiclesError THEN Return(r, "getVehicles", 500, NoBody)
     ELSE LET allTrips == IF tripsError THEN <<>> ELSE RowsIn(order)
          IN  Return(r, "getVehicles", 200, [vehicles |-> VehiclesWithStatus(allTrips),
                                            tripsError |-> tripsError])
  /\ UNCHANGED <<trips, userTrip, now, nextId, adminVars>>
  /\ calls' = FirstCalls(token, FALSE)

\* The handler does not look at who the authenticated caller is.
GetVehicles(r) ==
  /\ Free(r)
  /\ \/ GetVehiclesScan(r, NoToken, FALSE, FALSE, <<>>)
     \/ \E token \in Creators :
          \/ GetVehiclesScan(r, token, TRUE, FALSE, <<>>)
          \/ GetVehiclesScan(r, token, FALSE, TRUE, <<>>)
          \/ \E order \in Orders(DOMAIN trips) : GetVehiclesScan(r, token, FALSE, FALSE, order)

\* ------------------------------------------------------------ the fleet
\* In the fleet handlers a plate is a string: a sequence of characters.
PlateChars == {"a", "A", "b", "B", " "}

\* String.prototype.toUpperCase
ToUpperCase(s) ==
  [i \in 1..Len(s) |-> CASE s[i] = "a" -> "A"
                         [] s[i] = "b" -> "B"
                         [] OTHER      -> s[i]]

\* String.prototype.trim
RECURSIVE TrimStart(_)
TrimStart(s) == IF s # <<>> /\ Head(s) = " " THEN TrimStart(Tail(s)) ELSE s

RECURSIVE TrimEnd(_)
TrimEnd(s) ==
  IF s # <<>> /\ s[Len(s)] = " " THEN TrimEnd(SubSeq(s, 1, Len(s) - 1)) ELSE s

Trim(s) == TrimEnd(TrimStart(s))

\* A plate normalisation that keeps the spelling the request came with.
NormalizePlateTrimOnly(plate) == IF plate # <<>> THEN Trim(plate) ELSE plate

\* if (body.plate) body.plate = body.plate.trim().toUpperCase(); a missing
\* plate and the empty string are both <<>>.
NormalizePlate(plate) == IF plate # <<>> THEN ToUpperCase(Trim(plate)) ELSE plate

\* body.plate of POST /vehicles and PUT /vehicles/:plate
BodyPlateStrings == {<<>>, <<" ">>, <<"A">>, <<"a">>, <<" ", "a", " ">>, <<"b">>}

\* body.plate of PUT /vehicles/:plate
PutBodyPlates == {<<>>, <<"a">>, <<" ", "a", " ">>, <<"b">>}

\* the :plate of a URL
ParamPlates == {<<"A">>, <<"B">>, <<"a">>}

\* model, color, year and brand of a body; "" and 0 are the missing fields
Descriptions ==
  {[model |-> "m1", color |-> "c1", year |-> 2020, brand |-> "b1"],
   [model |-> "m2", color |-> "c2", year |-> 2021, brand |-> "b2"],
   [model |-> "m2", color |-> "", year |-> 0, brand |-> ""]}

\* a body without a plate that names the model alone
ModelOnly == [model |-> "m2", color |-> "", year |-> 0, brand |-> ""]

\* role is admin or super_admin
IsAdminTier(role) == role = "admin" \/ role = "super_admin"

\* The vehicle object of POST /vehicles when no record exists at the plate.
NewVehicle(plate, d, user, createdAt) ==
  [plate |-> plate, model |-> d.model, color |-> d.color, year |-> d.year,
   brand |-> d.brand, createdAt |-> <<createdAt>>, createdBy |-> <<user>>,
   updatedAt |-> <<>>, updatedBy |-> <<>>,
   fuelLevel |-> <<>>, lastFuelUpdate |-> <<>>, lastFuelUpdateBy |-> <<>>]

\* The vehicle object of POST /vehicles when a record exists at the plate: an
\* object literal of nine properties, the stored record supplying createdAt
\* and createdBy only.
UpsertVehicle(existingVehicle, plate, d, user, date) ==
  [plate |-> plate, model |-> d.model, color |-> d.color, year |-> d.year,
   brand |-> d.brand,
   createdAt |-> IF existingVehicle.createdAt # <<>> THEN existingVehicle.createdAt
                 ELSE <<date>>,
   createdBy |-> IF existingVehicle.createdBy # <<>> THEN existingVehicle.createdBy
                 ELSE <<user>>,
   updatedAt |-> <<date>>, updatedBy |-> <<user>>,
   fuelLevel |-> <<>>, lastFuelUpdate |-> <<>>, lastFuelUpdateBy |-> <<>>]

\* updatedVehicle of PUT /vehicles/:plate: the stored record spread, then the
\* fields of the body that are not falsy.
UpdatedVehicle(existingVehicle, targetPlate, d, user, date) ==
  [existingVehicle EXCEPT
     !.plate = targetPlate,
     !.model = IF d.model # "" THEN d.model ELSE existingVehicle.model,
     !.color = IF d.color # "" THEN d.color ELSE existingVehicle.color,
     !.year  = IF d.year # 0 THEN d.year ELSE existingVehicle.year,
     !.brand = IF d.brand # "" THEN d.brand ELSE existingVehicle.brand,
     !.updatedAt = <<date>>, !.updatedBy = <<user>>]

\* ----------------------------------------------------------- POST /vehicles
\* A create that any authenticated caller may make.
PostVehiclesReadUngated(r, token, plate, d, getError, date) ==
  /\ Accept(r)
  /\ LET normalized == NormalizePlate(plate) IN
     IF token = NoToken
     THEN Return(r, "postVehicles", 401, NoTokenBody) /\ UNCHANGED now
     ELSE IF normalized = <<>> \/ d.model = "" \/ d.color = "" \/ d.year = 0 \/ d.brand = ""
     THEN Return(r, "postVehicles", 400, NoBody) /\ UNCHANGED now
     ELSE IF getError THEN Return(r, "postVehicles", 500, NoBody) /\ UNCHANGED now
     ELSE /\ now' = date
          /\ Goto(r, "vehiclesUpsert",
                  [NoLoc EXCEPT
                     !.user = token, !.plate = normalized,
                     !.vehicle =
                       <<IF normalized \in DOMAIN vehicleRows
                         THEN UpsertVehicle(vehicleRows[normalized], normalized, d, token,
                                            ToISOString(date))
                         ELSE NewVehicle(normalized, d, token, ToISOString(date))>>])
  /\ calls' = FirstCalls(token, NormalizePlate(plate) = <<>> \/ d.model = "" \/ d.color = ""
                                   \/ d.year = 0 \/ d.brand = "")
  /\ UNCHANGED <<trips, userTrip, nextId, adminVars>>

\* validateUser, the role check, the normalisation of body.plate, the check
\* of the body, select of vehicle:<plate> and the vehicle object.
PostVehiclesRead(r, token, plate, d, getError, date) ==
  /\ Accept(r)
  /\ LET normalized == NormalizePlate(plate) IN
     IF token = NoToken
     THEN Return(r, "postVehicles", 401, NoTokenBody) /\ UNCHANGED now
     ELSE IF ~IsAdminTier(RoleOf(token))
     THEN Return(r, "postVehicles", 403, NoBody) /\ UNCHANGED now
     ELSE IF normalized = <<>> \/ d.model = "" \/ d.color = "" \/ d.year = 0 \/ d.brand = ""
     THEN Return(r, "postVehicles", 400, NoBody) /\ UNCHANGED now
     ELSE IF getError THEN Return(r, "postVehicles", 500, NoBody) /\ UNCHANGED now
     ELSE /\ now' = date
          /\ Goto(r, "vehiclesUpsert",
                  [NoLoc EXCEPT
                     !.user = token, !.plate = normalized,
                     !.vehicle =
                       <<IF normalized \in DOMAIN vehicleRows
                         THEN UpsertVehicle(vehicleRows[normalized], normalized, d, token,
                                            ToISOString(date))
                         ELSE NewVehicle(normalized, d, token, ToISOString(date))>>])
  /\ calls' = FirstCalls(token, \/ ~IsAdminTier(RoleOf(token))
                                \/ NormalizePlate(plate) = <<>> \/ d.model = ""
                                \/ d.color = "" \/ d.year = 0 \/ d.brand = "")
  /\ UNCHANGED <<trips, userTrip, nextId, adminVars>>

\* The inputs of a request that the handler gets to look at.
PostVehicles(r) ==
  /\ Free(r)
  /\ \/ PostVehiclesRead(r, NoToken, <<>>, ModelOnly, FALSE, now)
     \/ \E token \in Users :
          /\ ~IsAdminTier(RoleOf(token))
          /\ PostVehiclesRead(r, token, <<>>, ModelOnly, FALSE, now)
     \/ \E token \in Users, plate \in BodyPlateStrings, d \in Descriptions :
          /\ IsAdminTier(RoleOf(token))
          /\ \/ PostVehiclesRead(r, token, plate, d, TRUE, now)
             \/ \E date \in Dates : PostVehiclesRead(r, token, plate, d, FALSE, date)

\* upsert of vehicle:<plate>.
PostVehiclesUpsert(r) ==
  /\ pc[r] = "vehiclesUpsert"
  /\ \E upsertError \in BOOLEAN :
       IF upsertError
       THEN Return(r, "postVehicles", 500, NoBody) /\ UNCHANGED vehicleRows
       ELSE /\ vehicleRows' = Put(vehicleRows, loc[r].plate, loc[r].vehicle[1])
            /\ Return(r, "postVehicles", 200, [vehicle |-> loc[r].vehicle[1]])
  /\ calls' = {"store"}
  /\ UNCHANGED <<trips, userTrip, now, nextId, served, oil, history, settings, roles>>

\* ------------------------------------------------------ PUT /vehicles/:plate
\* validateUser, the role check, the normalisation of body.plate and select of
\* vehicle:<plateParam>; without a change of plate, updatedVehicle as well.
PutVehicleRead(r, token, plateParam, plate, d, getError, date) ==
  /\ Accept(r)
  /\ LET normalized  == NormalizePlate(plate)
         targetPlate == IF normalized # <<>> THEN normalized ELSE plateParam
     IN
     IF token = NoToken
     THEN Return(r, "putVehicle", 401, NoTokenBody) /\ UNCHANGED now
     ELSE IF ~IsAdminTier(RoleOf(token))
     THEN Return(r, "putVehicle", 403, NoBody) /\ UNCHANGED now
     ELSE IF getError THEN Return(r, "putVehicle", 500, NoBody) /\ UNCHANGED now
     ELSE IF plateParam \notin DOMAIN vehicleRows
     THEN Return(r, "putVehicle", 404, NoBody) /\ UNCHANGED now
     ELSE IF targetPlate # plateParam
     THEN /\ Goto(r, "vehicleCollision",
                  [NoLoc EXCEPT !.user = token, !.plateParam = plateParam,
                                !.plate = targetPlate, !.body = <<d>>,
                                !.vehicle = <<vehicleRows[plateParam]>>])
          /\ UNCHANGED now
     ELSE /\ now' = date
          /\ Goto(r, "vehicleUpdate",
                  [NoLoc EXCEPT !.user = token, !.plateParam = plateParam,
                                !.plate = targetPlate,
                                !.vehicle = <<UpdatedVehicle(vehicleRows[plateParam],
                                                             targetPlate, d, token,
                                                             ToISOString(date))>>])
  /\ calls' = FirstCalls(token, ~IsAdminTier(RoleOf(token)))
  /\ UNCHANGED <<trips, userTrip, nextId, adminVars>>

\* The inputs of a request that the handler gets to look at.
PutVehicle(r) ==
  /\ Free(r)
  /\ \/ PutVehicleRead(r, NoToken, <<"A">>, <<>>, ModelOnly, FALSE, now)
     \/ \E token \in Users :
          /\ ~IsAdminTier(RoleOf(token))
          /\ PutVehicleRead(r, token, <<"A">>, <<>>, ModelOnly, FALSE, now)
     \/ \E token \in Users, plateParam \in ParamPlates :
          /\ IsAdminTier(RoleOf(token))
          /\ \/ PutVehicleRead(r, token, plateParam, <<>>, ModelOnly, TRUE, now)
             \/ \E plate \in PutBodyPlates, d \in Descriptions, date \in Dates :
                  PutVehicleRead(r, token, plateParam, plate, d, FALSE, date)

\* select of vehicle:<targetPlate>, of which only the data is looked at: a
\* query that fails has no data.  Then updatedVehicle.
PutVehicleCollision(r) ==
  /\ pc[r] = "vehicleCollision"
  /\ \E collisionError \in BOOLEAN, date \in Dates :
       IF ~collisionError /\ loc[r].plate \in DOMAIN vehicleRows
       THEN Return(r, "putVehicle", 409, NoBody) /\ UNCHANGED now
       ELSE /\ now' = date
            /\ Goto(r, "vehicleUpdate",
                    [loc[r] EXCEPT !.body = <<>>,
                                   !.vehicle = <<UpdatedVehicle(loc[r].vehicle[1], loc[r].plate,
                                                                loc[r].body[1], loc[r].user,
                                                                ToISOString(date))>>])
  /\ calls' = {"store"}
  /\ UNCHANGED <<trips, userTrip, nextId, served, adminVars>>

\* upsert of vehicle:<targetPlate>.
PutVehicleUpsertRow(r, updateError) ==
  /\ pc[r] = "vehicleUpdate"
  /\ IF updateError
     THEN Return(r, "putVehicle", 500, NoBody) /\ UNCHANGED vehicleRows
     ELSE /\ vehicleRows' = Put(vehicleRows, loc[r].plate, loc[r].vehicle[1])
          /\ IF loc[r].plate # loc[r].plateParam
             THEN Goto(r, "vehicleDeleteOld", loc[r])
             ELSE Return(r, "putVehicle", 200, [vehicle |-> loc[r].vehicle[1]])
  /\ calls' = {"store"}
  /\ UNCHANGED <<trips, userTrip, now, nextId, served, oil, history, settings, roles>>

PutVehicleUpsert(r) == \E updateError \in BOOLEAN : PutVehicleUpsertRow(r, updateError)

\* The rename: delete of vehicle:<plateParam>; its error is only logged.
PutVehicleDeleteOldRow(r, delError) ==
  /\ pc[r] = "vehicleDeleteOld"
  /\ vehicleRows' = IF delError THEN vehicleRows ELSE Remove(vehicleRows, loc[r].plateParam)
  /\ Goto(r, "vehicleOilRead", loc[r])
  /\ calls' = {"store"}
  /\ UNCHANGED <<trips, userTrip, now, nextId, served, oil, history, settings, roles>>

PutVehicleDeleteOld(r) == \E delError \in BOOLEAN : PutVehicleDeleteOldRow(r, delError)

\* A rename that leaves the oil-change row where it is.
PutVehicleOilReadRowNoMigration(r, oilError) ==
  /\ pc[r] = "vehicleOilRead"
  /\ Return(r, "putVehicle", 200, [vehicle |-> loc[r].vehicle[1]])
  /\ calls' = {"store"}
  /\ UNCHANGED <<trips, userTrip, now, nextId, served, adminVars>>

\* The rename: select of vehicle:<plateParam>:last_oil_change, of which only
\* the data is looked at.
PutVehicleOilReadRow(r, oilError) ==
  /\ pc[r] = "vehicleOilRead"
  /\ IF ~oilError /\ loc[r].plateParam \in DOMAIN oil
     THEN Goto(r, "vehicleOilUpsert", [loc[r] EXCEPT !.value = <<oil[loc[r].plateParam]>>])
     ELSE Return(r, "putVehicle", 200, [vehicle |-> loc[r].vehicle[1]])
  /\ calls' = {"store"}
  /\ UNCHANGED <<trips, userTrip, now, nextId, served, adminVars>>

PutVehicleOilRead(r) == \E oilError \in BOOLEAN : PutVehicleOilReadRow(r, oilError)

\* The rename: upsert of vehicle:<targetPlate>:last_oil_change; its result is
\* not looked at.
PutVehicleOilUpsertRow(r, upsertError) ==
  /\ pc[r] = "vehicleOilUpsert"
  /\ oil' = IF upsertError THEN oil ELSE Put(oil, loc[r].plate, loc[r].value[1])
  /\ Goto(r, "vehicleOilDelete", loc[r])
  /\ calls' = {"store"}
  /\ UNCHANGED <<trips, userTrip, now, nextId, served, vehicleRows, history, settings, roles>>

PutVehicleOilUpsert(r) == \E upsertError \in BOOLEAN : PutVehicleOilUpsertRow(r, upsertError)

\* The rename: delete of vehicle:<plateParam>:last_oil_change; its result is
\* not looked at.
PutVehicleOilDeleteRow(r, delError) ==
  /\ pc[r] = "vehicleOilDelete"
  /\ oil' = IF delError THEN oil ELSE Remove(oil, loc[r].plateParam)
  /\ Return(r, "putVehicle", 200, [vehicle |-> loc[r].vehicle[1]])
  /\ calls' = {"store"}
  /\ UNCHANGED <<trips, userTrip, now, nextId, served, vehicleRows, history, settings, roles>>

PutVehicleOilDelete(r) == \E delError \in BOOLEAN : PutVehicleOilDeleteRow(r, delError)

\* --------------------------------------------------- DELETE /vehicles/:plate
\* validateUser, the role check and select of vehicle:<plate>.
DeleteVehicleRead(r, token, plate, getError) ==
  /\ Accept(r)
  /\ IF token = NoToken THEN Return(r, "deleteVehicle", 401, NoTokenBody)
     ELSE IF ~IsAdminTier(RoleOf(token)) THEN Return(r, "deleteVehicle", 403, NoBody)
     ELSE IF getError THEN Return(r, "deleteVehicle", 500, NoBody)
     ELSE IF plate \notin DOMAIN vehicleRows THEN Return(r, "deleteVehicle", 404, NoBody)
     ELSE Goto(r, "vehicleDelete", [NoLoc EXCEPT !.user = token, !.plate = plate])
  /\ calls' = FirstCalls(token, ~IsAdminTier(RoleOf(token)))
  /\ UNCHANGED <<trips, userTrip, now, nextId, adminVars>>

DeleteVehicle(r) ==
  /\ Free(r)
  /\ \/ DeleteVehicleRead(r, NoToken, <<"A">>, FALSE)
     \/ \E token \in Users, plate \in ParamPlates, getError \in BOOLEAN :
          DeleteVehicleRead(r, token, plate, getError)

\* delete of vehicle:<plate>.
DeleteVehicleRow(r) ==
  /\ pc[r] = "vehicleDelete"
  /\ \E delError \in BOOLEAN :
       IF delError
       THEN Return(r, "deleteVehicle", 500, NoBody) /\ UNCHANGED vehicleRows
       ELSE /\ vehicleRows' = Remove(vehicleRows, loc[r].plate)
            /\ Goto(r, "vehicleDeleteOil", loc[r])
  /\ calls' = {"store"}
  /\ UNCHANGED <<trips, userTrip, now, nextId, served, oil, history, settings, roles>>

\* delete of vehicle:<plate>:last_oil_change; its result is not looked at.
\* A delete that also drops the maintenance history of the plate.
DeleteVehicleOilAndHistory(r) ==
  /\ pc[r] = "vehicleDeleteOil"
  /\ \E delError \in BOOLEAN :
       oil' = IF delError THEN oil ELSE Remove(oil, loc[r].plate)
  /\ history' = {h \in history : h.plate # loc[r].plate}
  /\ Return(r, "deleteVehicle", 200, NoBody)
  /\ calls' = {"store"}
  /\ UNCHANGED <<trips, userTrip, now, nextId, served, vehicleRows, settings, roles>>

\* delete of vehicle:<plate>:last_oil_change, whose result is not looked at.
DeleteVehicleOil(r) ==
  /\ pc[r] = "vehicleDeleteOil"
  /\ \E delError \in BOOLEAN :
       oil' = IF delError THEN oil ELSE Remove(oil, loc[r].plate)
  /\ Return(r, "deleteVehicle", 200, NoBody)
  /\ calls' = {"store"}
  /\ UNCHANGED <<trips, userTrip, now, nextId, served, vehicleRows, history, settings, roles>>

\* ------------------------------------------------- POST /vehicles/:plate/fuel
\* body.level: not a number, or a number
Levels == {<<>>, <<-1>>, <<50>>, <<101>>}

\* validateUser, the check of level, select of vehicle:<plate> (an error and
\* no row are the same 404) and updatedVehicle.
PostFuelRead(r, token, plate, level, getError, date) ==
  /\ Accept(r)
  /\ IF token = NoToken THEN Return(r, "postFuel", 401, NoTokenBody) /\ UNCHANGED now
     ELSE IF level = <<>> \/ level[1] < 0 \/ level[1] > 100
     THEN Return(r, "postFuel", 400, NoBody) /\ UNCHANGED now
     ELSE IF getError \/ plate \notin DOMAIN vehicleRows
     THEN Return(r, "postFuel", 404, NoBody) /\ UNCHANGED now
     ELSE /\ now' = date
          /\ Goto(r, "fuelUpsert",
                  [NoLoc EXCEPT !.user = token, !.plate = plate,
                                !.vehicle = <<[vehicleRows[plate] EXCEPT
                                                 !.fuelLevel = level,
                                                 !.lastFuelUpdate = <<ToISOString(date)>>,
                                                 !.lastFuelUpdateBy = <<token>>]>>])
  /\ calls' = FirstCalls(token, level = <<>> \/ level[1] < 0 \/ level[1] > 100)
  /\ UNCHANGED <<trips, userTrip, nextId, adminVars>>

PostFuel(r) ==
  /\ Free(r)
  /\ \/ PostFuelRead(r, NoToken, <<"A">>, <<>>, FALSE, now)
     \/ \E token \in Users, plate \in ParamPlates, level \in Levels :
          \/ PostFuelRead(r, token, plate, level, TRUE, now)
          \/ \E date \in Dates : PostFuelRead(r, token, plate, level, FALSE, date)

\* upsert of vehicle:<plate> with updatedVehicle.
PostFuelUpsert(r) ==
  /\ pc[r] = "fuelUpsert"
  /\ \E updateError \in BOOLEAN :
       IF updateError
       THEN Return(r, "postFuel", 500, NoBody) /\ UNCHANGED vehicleRows
       ELSE /\ vehicleRows' = Put(vehicleRows, loc[r].plate, loc[r].vehicle[1])
            /\ Return(r, "postFuel", 200, [vehicle |-> loc[r].vehicle[1]])
  /\ calls' = {"store"}
  /\ UNCHANGED <<trips, userTrip, now, nextId, served, oil, history, settings, roles>>

\* ------------------------------------------- POST /vehicles/:plate/oil-change
\* body.currentKm: missing, or a number
CurrentKms == {<<>>, <<0>>, <<100>>, <<-100>>}

\* validateUser, the check of currentKm and upsert of
\* vehicle:<plate>:last_oil_change; then crypto.randomUUID() and historyEntry.
PostOilChangeSave(r, token, plate, currentKm, saveError, date) ==
  /\ Accept(r)
  /\ IF token = NoToken
     THEN Return(r, "postOilChange", 401, NoTokenBody) /\ UNCHANGED <<now, nextId, oil>>
     ELSE IF Falsy(currentKm)
     THEN Return(r, "postOilChange", 400, NoBody) /\ UNCHANGED <<now, nextId, oil>>
     ELSE IF saveError
     THEN Return(r, "postOilChange", 500, NoBody) /\ UNCHANGED <<now, nextId, oil>>
     ELSE /\ oil' = Put(oil, plate, currentKm[1])
          /\ nextId' = nextId + 1
          /\ now' = date
          /\ Goto(r, "oilHistory",
                  [NoLoc EXCEPT !.user = token, !.plate = plate,
                                !.value = <<[id |-> nextId, plate |-> plate,
                                             km |-> currentKm[1],
                                             date |-> ToISOString(date),
                                             userId |-> token]>>])
  /\ calls' = FirstCalls(token, Falsy(currentKm))
  /\ UNCHANGED <<trips, userTrip, vehicleRows, history, settings, roles>>

PostOilChange(r) ==
  /\ Free(r)
  /\ \/ PostOilChangeSave(r, NoToken, <<"A">>, <<>>, FALSE, now)
     \/ \E token \in Users, plate \in ParamPlates, currentKm \in CurrentKms :
          \/ PostOilChangeSave(r, token, plate, currentKm, TRUE, now)
          \/ \E date \in Dates : PostOilChangeSave(r, token, plate, currentKm, FALSE, date)

\* upsert of history:maintenance:<plate>:<historyId>; its error is only logged.
PostOilChangeHistory(r) ==
  /\ pc[r] = "oilHistory"
  /\ \E historyError \in BOOLEAN :
       history' = IF historyError THEN history ELSE history \cup {loc[r].value[1]}
  /\ Return(r, "postOilChange", 200, NoBody)
  /\ calls' = {"store"}
  /\ UNCHANGED <<trips, userTrip, now, nextId, served, vehicleRows, oil, settings, roles>>

\* ------------------------------------------- GET /vehicles/:plate/maintenance

\* A plate of the fleet handlers as the string the trips carry.
RECURSIVE JoinChars(_)
JoinChars(p) == IF p = <<>> THEN "" ELSE p[1] \o JoinChars(Tail(p))

\* x || 0
OrZero(x) == IF Falsy(x) THEN 0 ELSE x[1]

\* allTrips.filter(vehiclePlate === plate && status === 'completed')
CompletedTripsOf(allTrips, plate) ==
  SelectSeq(allTrips, LAMBDA trip : trip.vehiclePlate = plate /\ trip.status = "completed")

\* vehicleTrips.reduce((sum, trip) => sum + ((trip.kmEnd || 0) - (trip.kmStart || 0)), 0)
RECURSIVE ReduceKm(_, _)
ReduceKm(vehicleTrips, sum) ==
  IF vehicleTrips = <<>> THEN sum
  ELSE ReduceKm(Tail(vehicleTrips),
                sum + (OrZero(Head(vehicleTrips).kmEnd) - Head(vehicleTrips).kmStart))

\* The alert threshold of the handler.
OilChangeInterval == 10000

\* A query that alerts only past the threshold.
MaintenanceInfoStrict(plate, totalKm, oilData) ==
  LET lastOilChange    == OrZero(oilData)
      kmSinceOilChange == totalKm - lastOilChange
  IN  [plate |-> plate, totalKm |-> totalKm, lastOilChange |-> lastOilChange,
       kmSinceOilChange |-> kmSinceOilChange,
       needsOilChange |-> kmSinceOilChange > OilChangeInterval]

\* lastOilChange, kmSinceOilChange, needsOilChange and the answer.
MaintenanceInfo(plate, totalKm, oilData) ==
  LET lastOilChange    == OrZero(oilData)
      kmSinceOilChange == totalKm - lastOilChange
  IN  [plate |-> plate, totalKm |-> totalKm, lastOilChange |-> lastOilChange,
       kmSinceOilChange |-> kmSinceOilChange,
       needsOilChange |-> kmSinceOilChange >= OilChangeInterval]

\* validateUser, the scan of trip:%, the filter and the total.
GetMaintenanceScan(r, token, plate, tripsError, order) ==
  /\ Accept(r)
  /\ IF token = NoToken THEN Return(r, "getMaintenance", 401, NoTokenBody)
     ELSE IF tripsError THEN Return(r, "getMaintenance", 500, NoBody)
     ELSE Goto(r, "maintenanceOil",
               [NoLoc EXCEPT !.plate = plate,
                             !.value = <<ReduceKm(CompletedTripsOf(RowsIn(order),
                                                                   JoinChars(plate)), 0)>>])
  /\ calls' = FirstCalls(token, FALSE)
  /\ UNCHANGED <<trips, userTrip, now, nextId, adminVars>>

\* The handler does not look at who the authenticated caller is.
GetMaintenance(r) ==
  /\ Free(r)
  /\ \/ GetMaintenanceScan(r, NoToken, <<"A">>, FALSE, <<>>)
     \/ \E plate \in ParamPlates :
          \/ GetMaintenanceScan(r, "d1", plate, TRUE, <<>>)
          \/ \E order \in Orders(DOMAIN trips) :
               GetMaintenanceScan(r, "d1", plate, FALSE, order)

\* select of vehicle:<plate>:last_oil_change and the answer.
GetMaintenanceOil(r) ==
  /\ pc[r] = "maintenanceOil"
  /\ \E oilError \in BOOLEAN :
       IF oilError THEN Return(r, "getMaintenance", 500, NoBody)
       ELSE Return(r, "getMaintenance", 200,
                   MaintenanceInfo(loc[r].plate, loc[r].value[1],
                                   IF loc[r].plate \in DOMAIN oil
                                   THEN <<oil[loc[r].plate]>> ELSE <<>>))
  /\ calls' = {"store"}
  /\ UNCHANGED <<trips, userTrip, now, nextId, served, adminVars>>

\* ------------------------------------------------------------ GET /admin/*
\* GET /admin/trips: validateUser, the role check and select value where key
\* like 'trip:%'; the response lists the trips by their ids.
GetAdminTripsScan(r, token, tripsError) ==
  /\ Accept(r)
  /\ IF token = NoToken THEN Return(r, "getAdminTrips", 401, NoTokenBody)
     ELSE IF ~IsAdminTier(RoleOf(token)) THEN Return(r, "getAdminTrips", 403, NoBody)
     ELSE IF tripsError THEN Return(r, "getAdminTrips", 500, NoBody)
     ELSE Return(r, "getAdminTrips", 200, [trips |-> DOMAIN trips])
  /\ calls' = FirstCalls(token, ~IsAdminTier(RoleOf(token)))
  /\ UNCHANGED <<trips, userTrip, now, nextId, adminVars>>

GetAdminTrips(r) ==
  \/ GetAdminTripsScan(r, NoToken, FALSE)
  \/ \E token \in Users, tripsError \in BOOLEAN : GetAdminTripsScan(r, token, tripsError)

\* GET /admin/users: validateUser, the role check and auth.admin.listUsers;
\* a user without a role is listed as a driver.
GetAdminUsersList(r, token, error) ==
  /\ Accept(r)
  /\ IF token = NoToken THEN Return(r, "getAdminUsers", 401, NoTokenBody)
     ELSE IF ~IsAdminTier(RoleOf(token)) THEN Return(r, "getAdminUsers", 403, NoBody)
     ELSE IF error THEN Return(r, "getAdminUsers", 500, NoBody)
     ELSE Return(r, "getAdminUsers", 200,
                 [users |-> [u \in {a \in Accounts : roles[a] # "none"} |->
                               IF roles[u] = "" THEN "driver" ELSE roles[u]]])
  /\ calls' = IF token = NoToken THEN {} ELSE {"identity"}
  /\ UNCHANGED <<trips, userTrip, now, nextId, adminVars>>

GetAdminUsers(r) ==
  \/ GetAdminUsersList(r, NoToken, FALSE)
  \/ \E token \in Users, error \in BOOLEAN : GetAdminUsersList(r, token, error)

\* ------------------------------------------------ /settings/admin-registration
\* body.enabled by its typeof and, for a boolean, its value
Enableds ==
  {[type |-> "undefined", value |-> FALSE], [type |-> "string", value |-> TRUE],
   [type |-> "boolean", value |-> TRUE], [type |-> "boolean", value |-> FALSE]}

\* GET: select of settings:admin_registration_enabled; data?.[0]?.value ?? false.
GetSettingsRead(r, error) ==
  /\ Accept(r)
  /\ Return(r, "getSettings", 200,
            [enabled |-> IF error \/ settings = <<>> THEN FALSE ELSE settings[1]])
  /\ calls' = {"store"}
  /\ UNCHANGED <<trips, userTrip, now, nextId, adminVars>>

GetSettings(r) == \E error \in BOOLEAN : GetSettingsRead(r, error)

\* PUT: validateUser, the role check, the check of enabled and upsert of
\* settings:admin_registration_enabled.
PutSettingsUpsert(r, token, enabled, error) ==
  /\ Accept(r)
  /\ IF token = NoToken
     THEN Return(r, "putSettings", 401, NoTokenBody) /\ UNCHANGED settings
     ELSE IF ~IsAdminTier(RoleOf(token))
     THEN Return(r, "putSettings", 403, NoBody) /\ UNCHANGED settings
     ELSE IF enabled.type # "boolean"
     THEN Return(r, "putSettings", 400, NoBody) /\ UNCHANGED settings
     ELSE IF error THEN Return(r, "putSettings", 500, NoBody) /\ UNCHANGED settings
     ELSE /\ settings' = <<enabled.value>>
          /\ Return(r, "putSettings", 200, [enabled |-> enabled.value])
  /\ calls' = FirstCalls(token, ~IsAdminTier(RoleOf(token)) \/ enabled.type # "boolean")
  /\ UNCHANGED <<trips, userTrip, now, nextId, vehicleRows, oil, history, roles>>

PutSettings(r) ==
  /\ Free(r)
  /\ \/ PutSettingsUpsert(r, NoToken, CHOOSE e \in Enableds : e.type = "undefined", FALSE)
     \/ \E token \in Users, enabled \in Enableds, error \in BOOLEAN :
          PutSettingsUpsert(r, token, enabled, error)

\* -------------------------------------------------------------- POST /signup
\* body.role; "" when it is missing
SignupRoles == {"", "driver", "admin", "super_admin"}

\* body.email: of no user yet, or of a user
SignupEmails == NewUsers \cup {"d1"}

\* A gate that is open until the flag is stored as false.
SignupCheckDefaultOn(r, email, role, complete, settingError) ==
  /\ Accept(r)
  /\ IF ~complete \/ role = "" THEN Return(r, "signup", 400, NoBody)
     ELSE IF role = "admin" /\ ~settingError /\ settings = <<FALSE>>
     THEN Return(r, "signup", 403, NoBody)
     ELSE Goto(r, "signupCreate", [NoLoc EXCEPT !.target = email, !.role = role])
  /\ calls' = IF complete /\ role = "admin" THEN {"store"} ELSE {}
  /\ UNCHANGED <<trips, userTrip, now, nextId, adminVars>>

\* The check of the body and, for role admin alone, select of
\* settings:admin_registration_enabled: a query that fails has no data, and
\* the value has to be true.  complete: email, password and name are there.
SignupCheck(r, email, role, complete, settingError) ==
  /\ Accept(r)
  /\ IF ~complete \/ role = "" THEN Return(r, "signup", 400, NoBody)
     ELSE IF role = "admin" /\ ~(~settingError /\ settings = <<TRUE>>)
     THEN Return(r, "signup", 403, NoBody)
     ELSE Goto(r, "signupCreate", [NoLoc EXCEPT !.target = email, !.role = role])
  /\ calls' = IF complete /\ role = "admin" THEN {"store"} ELSE {}
  /\ UNCHANGED <<trips, userTrip, now, nextId, adminVars>>

Signup(r) ==
  /\ Free(r)
  /\ \/ \E role \in SignupRoles : SignupCheck(r, "n1", role, FALSE, FALSE)
     \/ \E email \in SignupEmails, role \in SignupRoles, settingError \in BOOLEAN :
          /\ settingError => role = "admin"
          /\ SignupCheck(r, email, role, TRUE, settingError)

\* auth.admin.createUser with user_metadata { name, role }; an email that a
\* user has is an error.
SignupCreate(r) ==
  /\ pc[r] = "signupCreate"
  /\ \E error \in BOOLEAN :
       IF error \/ roles[loc[r].target] # "none"
       THEN Return(r, "signup", 400, NoBody) /\ UNCHANGED roles
       ELSE /\ roles' = [roles EXCEPT ![loc[r].target] = loc[r].role]
            /\ Return(r, "signup", 200, [user |-> loc[r].target])
  /\ calls' = {"identity"}
  /\ UNCHANGED <<trips, userTrip, now, nextId, served, vehicleRows, oil, history, settings>>

\* ------------------------------------------------- PUT /admin/users/:id/role
\* body.role
BodyRoles == {"boss", "driver", "admin", "super_admin"}

\* validateUser, the check of role and the rule for the roles of others.
PutRoleCheck(r, token, targetUserId, role) ==
  /\ Accept(r)
  /\ IF token = NoToken THEN Return(r, "putRole", 401, NoTokenBody)
     ELSE IF role \notin {"admin", "driver", "super_admin"}
     THEN Return(r, "putRole", 400, NoBody)
     ELSE IF token = targetUserId /\ role = "super_admin"
     THEN Goto(r, "roleList", [NoLoc EXCEPT !.user = token, !.target = targetUserId,
                                            !.role = role,
                                            !.requesterRole = RoleOf(token)])
     ELSE IF RoleOf(token) # "super_admin" THEN Return(r, "putRole", 403, NoBody)
     ELSE Goto(r, "roleUpdate", [NoLoc EXCEPT !.user = token, !.target = targetUserId,
                                              !.role = role,
                                              !.requesterRole = RoleOf(token)])
  /\ calls' = IF token = NoToken THEN {} ELSE {"identity"}
  /\ UNCHANGED <<trips, userTrip, now, nextId, adminVars>>

PutRole(r) ==
  /\ Free(r)
  /\ \/ PutRoleCheck(r, NoToken, "d1", "driver")
     \/ \E token \in Users, targetUserId \in Accounts, role \in BodyRoles :
          PutRoleCheck(r, token, targetUserId, role)

\* The bootstrap: auth.admin.listUsers and the count of super admins.
PutRoleList(r) ==
  /\ pc[r] = "roleList"
  /\ \E listError \in BOOLEAN :
       IF listError THEN Return(r, "putRole", 500, NoBody)
       ELSE IF {u \in Accounts : roles[u] = "super_admin"} # {}
               /\ loc[r].requesterRole # "super_admin"
       THEN Return(r, "putRole", 403, NoBody)
       ELSE Goto(r, "roleUpdate", loc[r])
  /\ calls' = {"identity"}
  /\ UNCHANGED <<trips, userTrip, now, nextId, served, adminVars>>

\* auth.admin.updateUserById with user_metadata { role }; an id that no user
\* has is an error.
PutRoleUpdate(r) ==
  /\ pc[r] = "roleUpdate"
  /\ \E updateError \in BOOLEAN :
       IF updateError \/ roles[loc[r].target] = "none"
       THEN Return(r, "putRole", 500, NoBody) /\ UNCHANGED roles
       ELSE /\ roles' = [roles EXCEPT ![loc[r].target] = loc[r].role]
            /\ Return(r, "putRole", 200, [role |-> loc[r].role])
  /\ calls' = {"identity"}
  /\ UNCHANGED <<trips, userTrip, now, nextId, served, vehicleRows, oil, history, settings>>

\* -------------------------------------------------- DELETE /admin/users/:id
\* validateUser, the role check and the check against self-deletion.
DeleteUserCheck(r, token, targetUserId) ==
  /\ Accept(r)
  /\ IF token = NoToken THEN Return(r, "deleteUser", 401, NoTokenBody)
     ELSE IF ~IsAdminTier(RoleOf(token)) THEN Return(r, "deleteUser", 403, NoBody)
     ELSE IF token = targetUserId THEN Return(r, "deleteUser", 400, NoBody)
     ELSE Goto(r, "userFetch", [NoLoc EXCEPT !.user = token, !.target = targetUserId,
                                             !.requesterRole = RoleOf(token)])
  /\ calls' = IF token = NoToken THEN {} ELSE {"identity"}
  /\ UNCHANGED <<trips, userTrip, now, nextId, adminVars>>

DeleteUser(r) ==
  /\ Free(r)
  /\ \/ DeleteUserCheck(r, NoToken, "d1")
     \/ \E token \in Users, targetUserId \in Accounts :
          DeleteUserCheck(r, token, targetUserId)

\* The answer to an admin who names an admin or a super_admin.
DriversOnlyBody == [error |-> "Administradores só podem excluir motoristas"]

\* A fetch step without the hierarchy.
DeleteUserFetchAnyTarget(r) ==
  /\ pc[r] = "userFetch"
  /\ \E fetchError \in BOOLEAN :
       IF fetchError \/ roles[loc[r].target] = "none"
       THEN Return(r, "deleteUser", 404, NoBody)
       ELSE Goto(r, "userDelete", loc[r])
  /\ calls' = {"identity"}
  /\ UNCHANGED <<trips, userTrip, now, nextId, served, adminVars>>

\* auth.admin.getUserById and the hierarchy: an admin deletes drivers only.
DeleteUserFetch(r) ==
  /\ pc[r] = "userFetch"
  /\ \E fetchError \in BOOLEAN :
       IF fetchError \/ roles[loc[r].target] = "none"
       THEN Return(r, "deleteUser", 404, NoBody)
       ELSE IF loc[r].requesterRole = "admin" /\ IsAdminTier(roles[loc[r].target])
       THEN Return(r, "deleteUser", 403, DriversOnlyBody)
       ELSE Goto(r, "userDelete", loc[r])
  /\ calls' = {"identity"}
  /\ UNCHANGED <<trips, userTrip, now, nextId, served, adminVars>>

\* auth.admin.deleteUser.
DeleteUserDelete(r) ==
  /\ pc[r] = "userDelete"
  /\ \E deleteError \in BOOLEAN :
       IF deleteError THEN Return(r, "deleteUser", 500, NoBody) /\ UNCHANGED roles
       ELSE /\ roles' = [roles EXCEPT ![loc[r].target] = "none"]
            /\ Return(r, "deleteUser", 200, NoBody)
  /\ calls' = {"identity"}
  /\ UNCHANGED <<trips, userTrip, now, nextId, served, vehicleRows, oil, history, settings>>

\* ----------------------------------------------------------- specification
Next ==
  \/ \E r \in Reqs : PostTrips(r)
  \/ \E r \in Reqs : PostTripsUpsertTrip(r)
  \/ \E r \in Reqs : PostTripsUpsertIndex(r)
  \/ \E r \in Reqs : CompleteTrip(r)
  \/ \E r \in Reqs : CompleteTripUpsert(r)
  \/ \E r \in Reqs : DeleteTrip(r)
  \/ \E r \in Reqs : DeleteTripGhost(r)
  \/ \E r \in Reqs : DeleteTripRow(r)
  \/ \E r \in Reqs : DeleteTripIndex(r)
  \/ \E r \in Reqs : GetVehicles(r)
  \/ \E r \in Reqs : GetTrips(r)
  \/ \E r \in Reqs : GetTripsFetch(r)

Spec == Init /\ [][Next]_vars

\* ------------------------------------------- the resolver on arbitrary stores
\* Trip rows as any version of the server may have left them: plate A or B,
\* in progress or completed, createdAt missing, unparseable or an instant.
LegacyTrip(i, shape) ==
  LET plate     == IF shape % 2 = 0 THEN "A" ELSE "B"
      status    == IF (shape \div 2) % 2 = 0 THEN "in_progress" ELSE "completed"
      createdAt == CASE shape \div 4 = 0 -> NoDate
                     [] shape \div 4 = 1 -> BadDate
                     [] shape \div 4 = 2 -> ToISOString(1)
                     [] OTHER            -> ToISOString(2)
  IN  [id |-> i, userId |-> "d1", vehiclePlate |-> plate, kmStart |-> 10,
       kmEnd |-> IF status = "completed" THEN <<20>> ELSE <<>>,
       timeEnd |-> IF status = "completed" THEN <<"17:00">> ELSE <<>>,
       status |-> status, createdAt |-> createdAt,
       completedAt |-> IF status = "completed" THEN <<ToISOString(2)>> ELSE <<>>]

\* The stores of at most MaxLegacy rows, up to the naming of the rows.
LegacyStores ==
  UNION {{[i \in 1..n |-> LegacyTrip(i, f[i])] :
            f \in {g \in [1..n -> 0..(2 * 2 * 4 - 1)] : \A i \in 1..(n - 1) : g[i] <= g[i + 1]}} :
         n \in 0..MaxLegacy}

\* One request served on a store drawn from LegacyStores.
InitResolver ==
  /\ trips \in LegacyStores
  /\ userTrip = {}
  /\ now = 1
  /\ nextId = MaxLegacy + 1
  /\ served = MaxRequests - 1
  /\ pc = [r \in Reqs |-> "idle"]
  /\ loc = [r \in Reqs |-> NoLoc]
  /\ resp = NoResp
  /\ vehicleRows = <<>>
  /\ oil = <<>>
  /\ history = {}
  /\ settings = <<>>
  /\ roles = FirstRoles
  /\ calls = {}

NextResolver ==
  \/ \E r \in Reqs : PostTrips(r)
  \/ \E r \in Reqs : GetVehicles(r)

SpecResolver == InitResolver /\ [][NextResolver]_vars

\* ----------------------------------------- one request on a server in use
\* Vehicle records as the handlers leave them: created by adm, and with a
\* fuel level when a driver has reported one.
PlainVehicle(plate) ==
  NewVehicle(plate, [model |-> "m1", color |-> "c1", year |-> 2020, brand |-> "b1"],
             "adm", ToISOString(0))

FueledVehicle(plate) ==
  [PlainVehicle(plate) EXCEPT !.fuelLevel = <<50>>,
                              !.lastFuelUpdate = <<ToISOString(1)>>,
                              !.lastFuelUpdateBy = <<"d1">>]

\* The fleets: the vehicle rows and the oil-change rows.
Fleets ==
  {[rows |-> <<>>, oil |-> <<>>],
   [rows |-> (<<"A">> :> PlainVehicle(<<"A">>)), oil |-> <<>>],
   [rows |-> (<<"A">> :> FueledVehicle(<<"A">>)), oil |-> (<<"A">> :> 100)],
   [rows |-> (<<"A">> :> FueledVehicle(<<"A">>)) @@ (<<"B">> :> PlainVehicle(<<"B">>)),
    oil |-> (<<"A">> :> 100) @@ (<<"B">> :> 200)]}

\* The accounts: with a super admin, or before any account is one.
RoleTables == {FirstRoles, [FirstRoles EXCEPT !["sup"] = "admin"]}

\* One request served on a store with a trip of d1 in progress on plate A, a
\* fleet of Fleets, roles of RoleTables and the flag absent, false or true.
InitServer ==
  /\ trips = (1 :> NewTrip(1, "d1", "A", 10, ToISOString(1)))
  /\ userTrip = {<<"d1", 1>>}
  /\ now = 1
  /\ nextId = 2
  /\ served = MaxRequests - 1
  /\ pc = [r \in Reqs |-> "idle"]
  /\ loc = [r \in Reqs |-> NoLoc]
  /\ resp = NoResp
  /\ \E fleet \in Fleets : vehicleRows = fleet.rows /\ oil = fleet.oil
  /\ history = {}
  /\ settings \in {<<>>, <<FALSE>>, <<TRUE>>}
  /\ roles \in RoleTables
  /\ calls = {}

NextServer ==
  \/ Next
  \/ \E r \in Reqs : PostVehicles(r)
  \/ \E r \in Reqs : PostVehiclesUpsert(r)
  \/ \E r \in Reqs : PutVehicle(r)
  \/ \E r \in Reqs : PutVehicleCollision(r)
  \/ \E r \in Reqs : PutVehicleUpsert(r)
  \/ \E r \in Reqs : PutVehicleDeleteOld(r)
  \/ \E r \in Reqs : PutVehicleOilRead(r)
  \/ \E r \in Reqs : PutVehicleOilUpsert(r)
  \/ \E r \in Reqs : PutVehicleOilDelete(r)
  \/ \E r \in Reqs : DeleteVehicle(r)
  \/ \E r \in Reqs : DeleteVehicleRow(r)
  \/ \E r \in Reqs : DeleteVehicleOil(r)
  \/ \E r \in Reqs : PostFuel(r)
  \/ \E r \in Reqs : PostFuelUpsert(r)
  \/ \E r \in Reqs : PostOilChange(r)
  \/ \E r \in Reqs : PostOilChangeHistory(r)
  \/ \E r \in Reqs : GetAdminTrips(r)
  \/ \E r \in Reqs : GetAdminUsers(r)
  \/ \E r \in Reqs : GetSettings(r)
  \/ \E r \in Reqs : PutSettings(r)
  \/ \E r \in Reqs : Signup(r)
  \/ \E r \in Reqs : SignupCreate(r)
  \/ \E r \in Reqs : PutRole(r)
  \/ \E r \in Reqs : PutRoleList(r)
  \/ \E r \in Reqs : PutRoleUpdate(r)
  \/ \E r \in Reqs : DeleteUser(r)
  \/ \E r \in Reqs : DeleteUserFetch(r)
  \/ \E r \in Reqs : DeleteUserDelete(r)

SpecServer == InitServer /\ [][NextServer]_vars

\* ------------------------------------ two requests on a fleet with mileage

\* A trip of d1 that was completed.
CompletedTrip(i, plate, kmStart, kmEnd) ==
  [NewTrip(i, "d1", plate, kmStart, ToISOString(0)) EXCEPT
     !.kmEnd = <<kmEnd>>, !.timeEnd = <<"17:00">>, !.status = "completed",
     !.completedAt = <<ToISOString(1)>>]

\* Trip tables: none; one completed trip of A of 10100 km; that one with a
\* second completed trip of A, a trip of A under way and a completed trip of B.
MileageTrips ==
  {<<>>,
   (1 :> CompletedTrip(1, "A", 0, 10100)),
   (1 :> CompletedTrip(1, "A", 0, 10100)) @@ (2 :> CompletedTrip(2, "A", 10100, 10150))
     @@ (3 :> NewTrip(3, "d1", "A", 10150, ToISOString(1)))
     @@ (4 :> CompletedTrip(4, "B", 0, 50))}

\* Watermarks: none, A at 100, A at 101 with B at 200.
MileageOils ==
  {<<>>, (<<"A">> :> 100), (<<"A">> :> 101) @@ (<<"B">> :> 200)}

InitMileage ==
  /\ trips \in MileageTrips
  /\ userTrip = {<<"d1", i>> : i \in DOMAIN trips}
  /\ now = 1
  /\ nextId = 5
  /\ served = MaxRequests - 2
  /\ pc = [r \in Reqs |-> "idle"]
  /\ loc = [r \in Reqs |-> NoLoc]
  /\ resp = NoResp
  /\ vehicleRows = (<<"A">> :> FueledVehicle(<<"A">>)) @@ (<<"B">> :> PlainVehicle(<<"B">>))
  /\ oil \in MileageOils
  /\ history = {}
  /\ settings = <<>>
  /\ roles = FirstRoles
  /\ calls = {}

NextMileage ==
  \/ \E r \in Reqs : PostOilChange(r)
  \/ \E r \in Reqs : PostOilChangeHistory(r)
  \/ \E r \in Reqs : GetMaintenance(r)
  \/ \E r \in Reqs : GetMaintenanceOil(r)

SpecMileage == InitMileage /\ [][NextMileage]_vars

\* --------------------------- two requests on a fleet with maintenance history

\* The entry of an oil change of A at 100 recorded by adm.
FirstEntry ==
  [id |-> 1, plate |-> <<"A">>, km |-> 100, date |-> ToISOString(0), userId |-> "adm"]

InitHistory ==
  /\ trips = <<>>
  /\ userTrip = {}
  /\ now = 1
  /\ nextId = 2
  /\ served = MaxRequests - 2
  /\ pc = [r \in Reqs |-> "idle"]
  /\ loc = [r \in Reqs |-> NoLoc]
  /\ resp = NoResp
  /\ vehicleRows = (<<"A">> :> FueledVehicle(<<"A">>))
  /\ oil = (<<"A">> :> 100)
  /\ history = {FirstEntry}
  /\ settings = <<>>
  /\ roles = FirstRoles
  /\ calls = {}

NextHistory ==
  \/ \E r \in Reqs : PostOilChange(r)
  \/ \E r \in Reqs : PostOilChangeHistory(r)
  \/ \E r \in Reqs : PutVehicle(r)
  \/ \E r \in Reqs : PutVehicleCollision(r)
  \/ \E r \in Reqs : PutVehicleUpsert(r)
  \/ \E r \in Reqs : PutVehicleDeleteOld(r)
  \/ \E r \in Reqs : PutVehicleOilRead(r)
  \/ \E r \in Reqs : PutVehicleOilUpsert(r)
  \/ \E r \in Reqs : PutVehicleOilDelete(r)
  \/ \E r \in Reqs : DeleteVehicle(r)
  \/ \E r \in Reqs : DeleteVehicleRow(r)
  \/ \E r \in Reqs : DeleteVehicleOil(r)

SpecHistory == InitHistory /\ [][NextHistory]_vars

\* ------------------------------------------------------------------ claims
PlateTrips(store, plate) == {i \in DOMAIN store : store[i].vehiclePlate = plate}

\* C1: the resolver reports a plate unavailable exactly when its first-ranked
\* trip (newest createdAt, missing or unparseable counting as 0, completed
\* before in_progress on ties) is in progress, and the active trip is then a
\* newest trip of the plate that is in progress; otherwise the plate is
\* available with no active trip.  GET /vehicles reports this for every
\* vehicle; POST /trips answers 409, naming the user of such a trip, exactly
\* in the unavailable case.
C1_Resolver ==
  [][\A r \in Reqs :
       /\ pc[r] = "idle" /\ resp'.op = "getVehicles" /\ resp'.status = 200 /\ ~resp'.body.tripsError =>
            \A v \in Vehicles :
              LET a == resp'.body.vehicles[v] IN
              /\ a.isAvailable <=> ~Occupied(trips, v)
              /\ a.isAvailable <=> a.activeTrip = <<>>
              /\ ~a.isAvailable => /\ a.activeTrip[1] \in NewestTrips(trips, v)
                                   /\ trips[a.activeTrip[1]].status = "in_progress"
              /\ PlateTrips(trips, v) = {} => a.isAvailable
       /\ pc[r] = "idle" /\ resp'.op = "postTrips" /\ resp'.status = 409 =>
            /\ Occupied(trips, resp'.body.vehiclePlate)
            /\ \E i \in NewestTrips(trips, resp'.body.vehiclePlate) :
                 trips[i].userId = resp'.body.userName
       /\ pc[r] = "idle" /\ pc'[r] = "postUpsertTrip" /\ ~loc'[r].tripsError =>
            ~Occupied(trips, loc'[r].vehiclePlate)]_vars

\* C1 witness: GET /vehicles has reported a vehicle unavailable whose plate
\* also has an older trip still in progress and a completed one.
C1_Witness ==
  /\ resp.op = "getVehicles" /\ resp.status = 200 /\ ~resp.body.tripsError
  /\ \E v \in Vehicles :
       /\ ~resp.body.vehicles[v].isAvailable
       /\ \E i, j \in PlateTrips(trips, v) :
            /\ i # j /\ i # resp.body.vehicles[v].activeTrip[1]
            /\ j # resp.body.vehicles[v].activeTrip[1]
            /\ trips[i].status = "in_progress" /\ trips[j].status = "completed"

\* C4: when the newest trips of a plate include a completed one, the plate is
\* available (no active trip, no 409) however many in_progress trips share
\* that instant and in whatever order the rows were read.
C4_TieBreak ==
  [][\A r \in Reqs :
       /\ pc[r] = "idle" /\ resp'.op = "getVehicles" /\ resp'.status = 200 /\ ~resp'.body.tripsError =>
            \A v \in Vehicles :
              (\E i \in NewestTrips(trips, v) : trips[i].status = "completed") =>
                 /\ resp'.body.vehicles[v].isAvailable
                 /\ resp'.body.vehicles[v].activeTrip = <<>>
       /\ pc[r] = "idle" /\ resp'.op = "postTrips" /\ resp'.status = 409 =>
            \A i \in NewestTrips(trips, resp'.body.vehiclePlate) : trips[i].status # "completed"]_vars

\* C4 witness: a plate reported available whose newest trips are one completed
\* trip and two in_progress trips of the same instant.
C4_Witness ==
  /\ resp.op = "getVehicles" /\ resp.status = 200 /\ ~resp.body.tripsError
  /\ \E v \in Vehicles :
       /\ resp.body.vehicles[v].isAvailable
       /\ Cardinality({i \in NewestTrips(trips, v) : trips[i].status = "in_progress"}) >= 2
       /\ \E i \in NewestTrips(trips, v) : trips[i].status = "completed"

\* C2: a POST /trips whose plate was occupied when its scan ran never gets to
\* write a trip record (it is answered 409 instead).
C2_OccupiedNeverWrites ==
  \A r \in Reqs : loc[r].occupied => pc[r] \notin {"postUpsertTrip", "postUpsertIndex"}

\* C3: a POST /trips that has passed the availability check writes its
\* in_progress trip whatever the store holds by then (only a failed write
\* stops it), and after the index write it answers 200; so two requests that
\* both scanned the free plate both write.
C3_CheckThenWrite ==
  [][\A r \in Reqs :
       /\ pc[r] = "postUpsertTrip" /\ pc'[r] # "postUpsertTrip" =>
            \/ resp'.status = 500 /\ pc'[r] = "idle" /\ trips' = trips
            \/ /\ pc'[r] = "postUpsertIndex"
               /\ loc[r].tripId \in DOMAIN trips'
               /\ trips'[loc[r].tripId].status = "in_progress"
               /\ trips'[loc[r].tripId].vehiclePlate = loc[r].vehiclePlate
               /\ \A i \in DOMAIN trips : i \in DOMAIN trips' /\ trips'[i] = trips[i]
       /\ pc[r] = "postUpsertIndex" /\ pc'[r] # "postUpsertIndex" =>
            /\ pc'[r] = "idle" /\ resp'.status \in {200, 500} /\ trips' = trips
            /\ resp'.status = 200 => <<loc[r].user, loc[r].tripId>> \in userTrip']_vars

\* C3 witness: both handlers scanned the plate while it was free, both have
\* written their trip, and the store holds two in_progress trips of the plate.
C3_Witness ==
  /\ \A r \in Reqs : pc[r] = "postUpsertIndex" /\ ~loc[r].occupied /\ ~loc[r].tripsError
  /\ \E i, j \in DOMAIN trips :
       /\ i # j /\ trips[i].vehiclePlate = trips[j].vehiclePlate
       /\ trips[i].status = "in_progress" /\ trips[j].status = "in_progress"
       /\ \A r \in Reqs : loc[r].tripId \in {i, j}

\* C5: the annotation GET /vehicles returns is the same for every order in
\* which the store may return the same trip rows.
C5_OrderIndependent ==
  [][\A r \in Reqs :
       pc[r] = "idle" /\ resp'.op = "getVehicles" /\ resp'.status = 200 /\ ~resp'.body.tripsError =>
         \A order \in Orders(DOMAIN trips) :
           resp'.body.vehicles = VehiclesWithStatus(RowsIn(order))]_vars

\* C6: a PUT /trips/:id/complete by the owner on a trip that is already
\* completed is refused, and a completed record keeps its kmEnd, timeEnd and
\* completedAt.
C6_CompleteOnce ==
  [][/\ \A r \in Reqs :
          pc[r] = "idle" /\ served' # served /\ (resp'.op = "completeTrip" \/ pc'[r] = "completeUpsert") =>
            \A tripId \in DOMAIN trips, kmEnd \in KmEnds, timeEnd \in TimeEnds :
              /\ trips[tripId].status = "completed"
              /\ CompleteTripRead(r, trips[tripId].userId, tripId, kmEnd, timeEnd, FALSE, now')
              => pc'[r] = "idle" /\ resp'.status \notin {0, 200}
     /\ \A i \in DOMAIN trips \cap DOMAIN trips' :
          trips[i].status = "completed" =>
            /\ trips'[i].kmEnd = trips[i].kmEnd
            /\ trips'[i].timeEnd = trips[i].timeEnd
            /\ trips'[i].completedAt = trips[i].completedAt]_vars

C8_GhostDelete ==
  [][\A r \in Reqs :
       /\ pc[r] = "idle" /\ served' # served /\ (resp'.op = "deleteTrip" \/ pc'[r] \in {"deleteGhost", "deleteTripRow"}) =>
            /\ resp'.status # 404
            /\ trips' = trips /\ userTrip' = userTrip
            /\ \A token \in Users, tripId \in TripIds \ DOMAIN trips :
                 DeleteTripRead(r, token, tripId, FALSE) =>
                   /\ pc'[r] = "deleteGhost"
                   /\ loc'[r].user = token /\ loc'[r].tripId = tripId
       /\ pc[r] = "deleteGhost" /\ pc'[r] # "deleteGhost" =>
            /\ pc'[r] = "idle" /\ resp'.op = "deleteTrip" /\ resp'.status = 200
            /\ trips' = trips
            /\ userTrip' \subseteq userTrip
            /\ userTrip \ userTrip' \subseteq {<<loc[r].user, loc[r].tripId>>}]_vars

\* C8 witness: the ghost branch has answered success for an id without a trip
\* record, and an index entry of a deleted trip is still there.
C8_Witness ==
  /\ resp.op = "deleteTrip" /\ resp.status = 200 /\ "message" \in DOMAIN resp.body
  /\ \E e \in userTrip : e[2] \notin DOMAIN trips

\* C9: DELETE /trips/:id on an existing trip is let through exactly for the
\* owner and for the roles admin and super_admin, any other caller gets 403
\* with the store unchanged, and a successful delete leaves neither the trip
\* record nor the owner's index entry.
C9_DeleteRoles ==
  [][\A r \in Reqs :
       /\ pc[r] = "idle" /\ served' # served /\ (resp'.op = "deleteTrip" \/ pc'[r] \in {"deleteGhost", "deleteTripRow"}) =>
            \A token \in Users, tripId \in DOMAIN trips :
              DeleteTripRead(r, token, tripId, FALSE) =>
                IF trips[tripId].userId = token \/ RoleOf(token) \in {"admin", "super_admin"}
                THEN pc'[r] = "deleteTripRow"
                ELSE resp'.status = 403 /\ trips' = trips /\ userTrip' = userTrip
       /\ pc[r] = "deleteIndex" /\ pc'[r] = "idle" /\ resp'.status = 200 =>
            /\ loc[r].tripId \notin DOMAIN trips'
            /\ <<loc[r].trip[1].userId, loc[r].tripId>> \notin userTrip']_vars

\* C10: every stored trip is completed exactly when its kmEnd is set and in
\* progress exactly when its kmEnd is null.
C10_StatusKmEnd ==
  \A i \in DOMAIN trips :
    /\ trips[i].status \in {"in_progress", "completed"}
    /\ trips[i].status = "completed" <=> trips[i].kmEnd # <<>>
    /\ trips[i].status = "in_progress" <=> trips[i].kmEnd = <<>>

\* C10 witness: a completion has just been stored, and the store holds a
\* completed trip and a trip in progress.
C10_Witness ==
  /\ resp.op = "completeTrip" /\ resp.status = 200
  /\ \E i, j \in DOMAIN trips : trips[i].status = "completed" /\ trips[j].status = "in_progress"

\* C11: every stored trip has kmStart >= 0 and, once kmEnd is set,
\* kmEnd >= kmStart.
C11_Odometer ==
  \A i \in DOMAIN trips :
    /\ trips[i].kmStart >= 0
    /\ trips[i].kmEnd # <<>> => trips[i].kmEnd[1] >= trips[i].kmStart

\* C12: the index step of POST /trips either writes the index entry and answers
\* 200, or fails, answers 500 and leaves the store as it is: the trip record
\* written by the step before is not taken back.
C12_NoRollback ==
  [][\A r \in Reqs :
       pc[r] = "postUpsertIndex" /\ pc'[r] # "postUpsertIndex" =>
         /\ pc'[r] = "idle" /\ resp'.op = "postTrips"
         /\ \/ /\ resp'.status = 200
               /\ userTrip' = userTrip \cup {<<loc[r].user, loc[r].tripId>>}
            \/ /\ resp'.status = 500
               /\ userTrip' = userTrip
         /\ trips' = trips]_vars

\* C12 witness: POST /trips has just answered 500, no handler is running, and
\* the store holds an in_progress trip without an index entry of its owner.
C12_Witness ==
  /\ resp.op = "postTrips" /\ resp.status = 500
  /\ \A r \in Reqs : pc[r] = "idle"
  /\ \E i \in DOMAIN trips :
       trips[i].status = "in_progress" /\ <<trips[i].userId, i>> \notin userTrip

\* C13: GET /trips of caller U answers with the trips that are in the store
\* when it fetches them and whose ids the index entries user_trip:<U>:* named
\* when it read them: each id once, createdAt non-increasing, every trip
\* owned by U; a caller without index entries gets the empty list.
C13_TripList ==
  [][\A r \in Reqs :
       /\ pc[r] = "idle" /\ served' # served /\ (resp'.op = "getTrips" \/ pc'[r] = "tripsFetch") =>
            /\ trips' = trips /\ userTrip' = userTrip
            /\ \A token \in Users :
                 GetTripsKeys(r, token, FALSE) =>
                   LET mine == {i \in TripIds : <<token, i>> \in userTrip} IN
                   IF mine = {}
                   THEN pc'[r] = "idle" /\ resp'.status = 200 /\ resp'.body.trips = <<>>
                   ELSE pc'[r] = "tripsFetch" /\ loc'[r].user = token /\ loc'[r].tripIds = mine
       /\ pc[r] = "tripsFetch" /\ pc'[r] = "idle" /\ resp'.status = 200 =>
            LET list == resp'.body.trips IN
            /\ trips' = trips /\ userTrip' = userTrip
            /\ {list[k] : k \in 1..Len(list)} = loc[r].tripIds \cap DOMAIN trips
            /\ \A k, l \in 1..Len(list) : k # l => list[k] # list[l]
            /\ \A k, l \in 1..Len(list) :
                 k < l => CreatedInstant(trips[list[k]]) >= CreatedInstant(trips[list[l]])
            /\ \A k \in 1..Len(list) : trips[list[k]].userId = loc[r].user]_vars

\* C13 witness: GET /trips has listed two trips created at different instants,
\* the newer one first.
C13_Witness ==
  /\ resp.op = "getTrips" /\ resp.status = 200
  /\ Len(resp.body.trips) = 2
  /\ CreatedInstant(trips[resp.body.trips[1]]) > CreatedInstant(trips[resp.body.trips[2]])

\* The step of handler r is the whole answer to a request without a token.
NoTokenAnswer(r) ==
  /\ pc'[r] = "idle"
  /\ resp'.status = 401
  /\ resp'.body = NoTokenBody
  /\ calls' = {}
  /\ UNCHANGED <<trips, userTrip, adminVars>>

\* The step of handler r begins a request for op, seen by its response or by
\* the label the handler goes on to.
Begins(r, op, labels) ==
  /\ pc[r] = "idle"
  /\ served' # served
  /\ resp'.op = op \/ pc'[r] \in labels

\* C14: a request without a credential to a mutating endpoint (trips create,
\* complete and delete; vehicles create, update, delete, fuel and oil-change;
\* settings PUT; admin user delete and role update) is answered 401 'No token
\* provided' in a step that calls neither the identity service nor the store
\* and changes no row and no user, whatever else the request carries.
C14_NoToken401 ==
  [][\A r \in Reqs :
     pc[r] = "idle" /\ served' # served =>
       /\ Begins(r, "postTrips", {"postUpsertTrip"}) =>
            \A vehiclePlate \in BodyPlates, kmStart \in KmStarts, tripsError \in BOOLEAN,
               order \in Orders(DOMAIN trips), date \in Dates :
              PostTripsScan(r, NoToken, vehiclePlate, kmStart, tripsError, order, date)
                => NoTokenAnswer(r)
       /\ Begins(r, "completeTrip", {"completeUpsert"}) =>
            \A tripId \in TripIds, kmEnd \in KmEnds, timeEnd \in TimeEnds,
               tripError \in BOOLEAN, date \in Dates :
              CompleteTripRead(r, NoToken, tripId, kmEnd, timeEnd, tripError, date)
                => NoTokenAnswer(r)
       /\ Begins(r, "deleteTrip", {"deleteGhost", "deleteTripRow"}) =>
            \A tripId \in TripIds, tripError \in BOOLEAN :
              DeleteTripRead(r, NoToken, tripId, tripError) => NoTokenAnswer(r)
       /\ Begins(r, "postVehicles", {"vehiclesUpsert"}) =>
            \A plate \in BodyPlateStrings, d \in Descriptions, getError \in BOOLEAN,
               date \in Dates :
              PostVehiclesRead(r, NoToken, plate, d, getError, date) => NoTokenAnswer(r)
       /\ Begins(r, "putVehicle", {"vehicleCollision", "vehicleUpdate"}) =>
            \A plateParam \in ParamPlates, plate \in PutBodyPlates, d \in Descriptions,
               getError \in BOOLEAN, date \in Dates :
              PutVehicleRead(r, NoToken, plateParam, plate, d, getError, date)
                => NoTokenAnswer(r)
       /\ Begins(r, "deleteVehicle", {"vehicleDelete"}) =>
            \A plate \in ParamPlates, getError \in BOOLEAN :
              DeleteVehicleRead(r, NoToken, plate, getError) => NoTokenAnswer(r)
       /\ Begins(r, "postFuel", {"fuelUpsert"}) =>
            \A plate \in ParamPlates, level \in Levels, getError \in BOOLEAN,
               date \in Dates :
              PostFuelRead(r, NoToken, plate, level, getError, date) => NoTokenAnswer(r)
       /\ Begins(r, "postOilChange", {"oilHistory"}) =>
            \A plate \in ParamPlates, currentKm \in CurrentKms, saveError \in BOOLEAN,
               date \in Dates :
              PostOilChangeSave(r, NoToken, plate, currentKm, saveError, date)
                => NoTokenAnswer(r)
       /\ Begins(r, "putSettings", {}) =>
            \A enabled \in Enableds, error \in BOOLEAN :
              PutSettingsUpsert(r, NoToken, enabled, error) => NoTokenAnswer(r)
       /\ Begins(r, "deleteUser", {"userFetch"}) =>
            \A targetUserId \in Accounts :
              DeleteUserCheck(r, NoToken, targetUserId) => NoTokenAnswer(r)
       /\ Begins(r, "putRole", {"roleList", "roleUpdate"}) =>
            \A targetUserId \in Accounts, role \in BodyRoles :
              PutRoleCheck(r, NoToken, targetUserId, role) => NoTokenAnswer(r)]_vars

\* A request without a token has been answered by each kind of handler: one
\* of the fleet, one of the accounts.
C14_Witness ==
  /\ resp.status = 401
  /\ resp.body = NoTokenBody
  /\ resp.op \in {"putVehicle", "putRole", "postTrips"}
  /\ calls = {}
  /\ vehicleRows # <<>>

\* The step of handler r is the whole answer to a caller who is turned away:
\* 403, and every row of the store as it was.
ForbiddenAnswer(r) ==
  /\ pc'[r] = "idle"
  /\ resp'.status = 403
  /\ UNCHANGED <<trips, userTrip, vehicleRows, oil, history, settings>>

\* C15: POST /vehicles, PUT /vehicles/:plate, DELETE /vehicles/:plate, PUT
\* /settings/admin-registration, GET /admin/trips and GET /admin/users from a
\* caller whose role is neither admin nor super_admin are answered 403 in a
\* step that writes and deletes no row, whatever else the request carries.
C15_RoleGate ==
  [][\A r \in Reqs :
     pc[r] = "idle" /\ served' # served =>
     \A token \in {u \in Users : ~IsAdminTier(RoleOf(u))} :
       /\ Begins(r, "postVehicles", {"vehiclesUpsert"}) =>
            \A plate \in BodyPlateStrings, d \in Descriptions, getError \in BOOLEAN,
               date \in Dates :
              PostVehiclesRead(r, token, plate, d, getError, date) => ForbiddenAnswer(r)
       /\ Begins(r, "putVehicle", {"vehicleCollision", "vehicleUpdate"}) =>
            \A plateParam \in ParamPlates, plate \in PutBodyPlates, d \in Descriptions,
               getError \in BOOLEAN, date \in Dates :
              PutVehicleRead(r, token, plateParam, plate, d, getError, date)
                => ForbiddenAnswer(r)
       /\ Begins(r, "deleteVehicle", {"vehicleDelete"}) =>
            \A plate \in ParamPlates, getError \in BOOLEAN :
              DeleteVehicleRead(r, token, plate, getError) => ForbiddenAnswer(r)
       /\ Begins(r, "putSettings", {}) =>
            \A enabled \in Enableds, error \in BOOLEAN :
              PutSettingsUpsert(r, token, enabled, error) => ForbiddenAnswer(r)
       /\ Begins(r, "getAdminTrips", {}) =>
            \A tripsError \in BOOLEAN :
              GetAdminTripsScan(r, token, tripsError) => ForbiddenAnswer(r)
       /\ Begins(r, "getAdminUsers", {}) =>
            \A error \in BOOLEAN :
              GetAdminUsersList(r, token, error) => ForbiddenAnswer(r)]_vars

\* A caller has been turned away from a fleet that has a vehicle to change.
C15_Witness ==
  /\ resp.status = 403
  /\ resp.op \in {"postVehicles", "putVehicle", "deleteVehicle"}
  /\ calls = {"identity"}
  /\ <<"A">> \in DOMAIN vehicleRows

\* C16: a user becomes super_admin only by the update step of PUT
\* /admin/users/:id/role, issued by a requester who holds super_admin or by
\* the user for themselves while no user holds super_admin.
C16_SuperAdminOnlyByRoleUpdate ==
  [][\A u \in Accounts :
       roles[u] # "super_admin" /\ roles'[u] = "super_admin" =>
         \E r \in Reqs :
           /\ pc[r] = "roleUpdate"
           /\ loc[r].target = u
           /\ \/ loc[r].requesterRole = "super_admin"
              \/ /\ loc[r].user = u
                 /\ \A a \in Accounts : roles[a] # "super_admin"]_vars

\* C17: POST /signup with role admin goes on to create the user exactly when
\* its check reads settings:admin_registration_enabled as true; with the flag
\* absent or false (or not readable) it is answered 403 and no user is
\* created.  The creation adds the user as an admin or fails with 400 and
\* adds no one.  The flag is stored only by a PUT /settings/admin-registration
\* of an admin or super admin with a boolean enabled, which answers 200, and
\* GET reads an absent flag as false.
C17_AdminSignupGate ==
  [][\A r \in Reqs :
       /\ Begins(r, "signup", {"signupCreate"}) =>
            \A email \in SignupEmails, settingError \in BOOLEAN :
              SignupCheck(r, email, "admin", TRUE, settingError) =>
                IF settings = <<TRUE>> /\ ~settingError
                THEN /\ pc'[r] = "signupCreate"
                     /\ loc'[r].target = email /\ loc'[r].role = "admin"
                     /\ roles' = roles
                ELSE /\ pc'[r] = "idle" /\ resp'.status = 403
                     /\ roles' = roles
       /\ pc[r] = "signupCreate" /\ pc'[r] # "signupCreate" =>
            /\ pc'[r] = "idle" /\ resp'.op = "signup"
            /\ \/ /\ resp'.status = 200
                  /\ roles[loc[r].target] = "none"
                  /\ roles' = [roles EXCEPT ![loc[r].target] = loc[r].role]
               \/ /\ resp'.status = 400
                  /\ roles' = roles
       /\ Begins(r, "putSettings", {}) =>
            \A token \in Users, enabled \in Enableds, error \in BOOLEAN :
              PutSettingsUpsert(r, token, enabled, error) /\ settings' # settings =>
                /\ IsAdminTier(RoleOf(token))
                /\ enabled.type = "boolean" /\ ~error
                /\ settings' = <<enabled.value>>
                /\ resp'.status = 200
       /\ ~Begins(r, "putSettings", {}) /\ pc[r] # pc'[r] => settings' = settings
       /\ Begins(r, "getSettings", {}) /\ settings = <<>> => resp'.body.enabled = FALSE]_vars

\* An admin has signed up on a server whose flag is true.
C17_Witness ==
  /\ resp.op = "signup" /\ resp.status = 200
  /\ roles["n1"] = "admin"
  /\ settings = <<TRUE>>

\* q is p without the blanks around it, in capitals.
IsNormalFormOf(q, p) ==
  \E lead, trail \in 0..Len(p) :
    /\ lead + trail <= Len(p)
    /\ \A i \in 1..lead : p[i] = " "
    /\ \A i \in (Len(p) - trail + 1)..Len(p) : p[i] = " "
    /\ Len(q) = Len(p) - lead - trail
    /\ \A i \in 1..Len(q) :
         /\ q[i] \notin {"a", "b"}
         /\ p[lead + i] = "a" => q[i] = "A"
         /\ p[lead + i] = "b" => q[i] = "B"
         /\ p[lead + i] \notin {"a", "b"} => q[i] = p[lead + i]
    /\ q # <<>> => q[1] # " " /\ q[Len(q)] # " "

\* C18: a create with plate p that gets to its write writes the key
\* vehicle:<upper(trim(p))> and nothing else, with that plate in the record
\* and in the response; a plate that is blank after trimming is refused.  So
\* a create whose plate differs from a stored one in case or in the blanks
\* around it writes the record of that plate and adds none.
C18_PlateNormalForm ==
  [][\A r \in Reqs :
       /\ Begins(r, "postVehicles", {"vehiclesUpsert"}) =>
            \A token \in {u \in Users : IsAdminTier(RoleOf(u))}, plate \in BodyPlateStrings,
               d \in Descriptions, date \in Dates :
              PostVehiclesRead(r, token, plate, d, FALSE, date) =>
                IF pc'[r] = "vehiclesUpsert"
                THEN /\ IsNormalFormOf(loc'[r].plate, plate)
                     /\ loc'[r].plate # <<>>
                     /\ loc'[r].vehicle[1].plate = loc'[r].plate
                ELSE /\ resp'.status = 400
                     /\ IsNormalFormOf(<<>>, plate) \/ d = ModelOnly
       /\ pc[r] = "vehiclesUpsert" /\ pc'[r] # "vehiclesUpsert" =>
            \/ /\ resp'.status = 200
               /\ resp'.body.vehicle.plate = loc[r].plate
               /\ DOMAIN vehicleRows' = DOMAIN vehicleRows \cup {loc[r].plate}
               /\ vehicleRows'[loc[r].plate].plate = loc[r].plate
               /\ \A k \in DOMAIN vehicleRows \ {loc[r].plate} :
                    vehicleRows'[k] = vehicleRows[k]
            \/ /\ resp'.status = 500
               /\ vehicleRows' = vehicleRows]_vars

\* A create has been answered with plate A on a fleet that had a vehicle A
\* of another description: the record of that plate was written, none added.
C18_Witness ==
  /\ resp.op = "postVehicles" /\ resp.status = 200
  /\ resp.body.vehicle.plate = <<"A">>
  /\ resp.body.vehicle.updatedBy # <<>>
  /\ DOMAIN vehicleRows = {<<"A">>}
  /\ vehicleRows[<<"A">>] = resp.body.vehicle

\* C19: the write of a POST /vehicles for a plate that has a record keeps the
\* createdAt and createdBy of the record, its fuel level with the time and
\* author of the fuel report, and the oil-change row of the plate.
C19_UpsertKeepsOtherData ==
  [][\A r \in Reqs :
       /\ pc[r] = "vehiclesUpsert"
       /\ loc[r].plate \in DOMAIN vehicleRows
       /\ vehicleRows' # vehicleRows
       => LET old == vehicleRows[loc[r].plate]
              new == vehicleRows'[loc[r].plate]
          IN  /\ new.createdAt = old.createdAt
              /\ new.createdBy = old.createdBy
              /\ new.fuelLevel = old.fuelLevel
              /\ new.lastFuelUpdate = old.lastFuelUpdate
              /\ new.lastFuelUpdateBy = old.lastFuelUpdateBy
              /\ oil' = oil]_vars

\* C20: the collision check of a rename to a plate that has a record ends
\* the request with 409, and the vehicle rows and the oil-change rows are as
\* they were.
C20_RenameCollision ==
  [][\A r \in Reqs :
       /\ pc[r] = "vehicleCollision"
       /\ pc'[r] # "vehicleCollision"
       /\ loc[r].plate \in DOMAIN vehicleRows
       => /\ pc'[r] = "idle"
          /\ resp'.op = "putVehicle" /\ resp'.status = 409
          /\ UNCHANGED <<vehicleRows, oil>>]_vars

\* The steps of a rename, after the check of the new plate.
RenameLabels == {"vehicleDeleteOld", "vehicleOilRead", "vehicleOilUpsert", "vehicleOilDelete"}

\* C21: a rename of A to a free plate B all of whose store calls succeed
\* migrates the record and the watermark.  The upsert writes A's record under
\* vehicle:B with plate B (creation and fuel fields kept) while vehicle:A is
\* still there; the delete removes vehicle:A and leaves vehicle:B; the read of
\* A's watermark hands its value to the upsert of B's watermark, or answers 200
\* when A has none; the last delete removes A's watermark, leaves B's as the
\* upsert wrote it and answers 200.  The watermark steps leave the vehicle
\* records alone, and at no point of the rename is the vehicle absent from
\* both keys.
C21_RenameMigrates ==
  [][\A r \in Reqs :
       LET A == loc[r].plateParam
           B == loc[r].plate
       IN
       /\ (pc[r] = "vehicleUpdate" /\ A # B /\ B \notin DOMAIN vehicleRows
           /\ PutVehicleUpsertRow(r, FALSE))
            => /\ vehicleRows' = Put(vehicleRows, B, loc[r].vehicle[1])
               /\ vehicleRows'[B].plate = B
               /\ \A f \in {"createdAt", "createdBy", "fuelLevel", "lastFuelUpdate",
                            "lastFuelUpdateBy"} :
                    vehicleRows'[B][f] = vehicleRows[A][f]
               /\ A \in DOMAIN vehicleRows'
               /\ pc'[r] = "vehicleDeleteOld"
       /\ (pc[r] = "vehicleDeleteOld" /\ PutVehicleDeleteOldRow(r, FALSE))
            => /\ A \notin DOMAIN vehicleRows'
               /\ B \in DOMAIN vehicleRows' /\ vehicleRows'[B] = vehicleRows[B]
               /\ oil' = oil
       /\ (pc[r] = "vehicleOilRead" /\ PutVehicleOilReadRow(r, FALSE))
            => /\ vehicleRows' = vehicleRows /\ oil' = oil
               /\ IF A \in DOMAIN oil
                  THEN pc'[r] = "vehicleOilUpsert" /\ loc'[r].value = <<oil[A]>>
                  ELSE resp'.op = "putVehicle" /\ resp'.status = 200
       /\ (pc[r] = "vehicleOilUpsert" /\ PutVehicleOilUpsertRow(r, FALSE))
            => /\ vehicleRows' = vehicleRows
               /\ A \in DOMAIN oil /\ oil' = Put(oil, B, oil[A])
               /\ pc'[r] = "vehicleOilDelete"
       /\ (pc[r] = "vehicleOilDelete" /\ PutVehicleOilDeleteRow(r, FALSE))
            => /\ vehicleRows' = vehicleRows
               /\ A \notin DOMAIN oil'
               /\ \A q \in DOMAIN oil \ {A} : q \in DOMAIN oil' /\ oil'[q] = oil[q]
               /\ resp'.op = "putVehicle" /\ resp'.status = 200
               /\ resp'.body.vehicle.plate = B
       /\ pc'[r] \in RenameLabels
            => loc'[r].plateParam \in DOMAIN vehicleRows' \/ loc'[r].plate \in DOMAIN vehicleRows'
  ]_vars

\* A rename of the fuelled A with watermark 100 has answered 200: vehicle:B is
\* the only record, with A's fuel data, and B's watermark is 100.
C21_Witness ==
  /\ resp.op = "putVehicle" /\ resp.status = 200
  /\ DOMAIN vehicleRows = {<<"B">>}
  /\ vehicleRows[<<"B">>].plate = <<"B">>
  /\ vehicleRows[<<"B">>].fuelLevel = <<50>>
  /\ DOMAIN oil = {<<"B">>} /\ oil[<<"B">>] = 100

\* The kilometres of the completed trips of a plate, summed over the rows.
RECURSIVE CompletedKm(_, _)
CompletedKm(ids, plate) ==
  IF ids = {} THEN 0
  ELSE LET i == CHOOSE j \in ids : TRUE
           km == IF trips[i].vehiclePlate = plate /\ trips[i].status = "completed"
                 THEN trips[i].kmEnd[1] - trips[i].kmStart ELSE 0
       IN  km + CompletedKm(ids \ {i}, plate)

\* The watermark of a plate, 0 when there is none.
Watermark(plate) == IF plate \in DOMAIN oil THEN oil[plate] ELSE 0

\* C22: an oil change with currentKm = k that is stored sets the watermark of
\* its plate to exactly k and leaves the other watermarks alone; every answer
\* of the maintenance query for a plate has totalKm = the sum of
\* kmEnd - kmStart over the completed trips of that plate,
\* kmSinceOilChange = totalKm - watermark (0 without one) at the time of the
\* answer, and needsOilChange exactly when kmSinceOilChange >= 10000.
C22_OilChangeAndQuery ==
  [][\A r \in Reqs :
       /\ (pc[r] = "idle" /\ pc'[r] = "oilHistory") =>
            \A plate \in ParamPlates, currentKm \in CurrentKms :
              PostOilChangeSave(r, loc'[r].user, plate, currentKm, FALSE, now')
                => /\ oil'[plate] = currentKm[1]
                   /\ \A q \in DOMAIN oil \ {plate} : oil'[q] = oil[q]
                   /\ DOMAIN oil' = DOMAIN oil \cup {plate}
       /\ (pc[r] = "maintenanceOil" /\ pc'[r] = "idle" /\ resp'.status = 200) =>
            LET plate   == resp'.body.plate
                totalKm == CompletedKm(DOMAIN trips, JoinChars(plate))
            IN  /\ plate = loc[r].plate
                /\ resp'.body.totalKm = totalKm
                /\ resp'.body.lastOilChange = Watermark(plate)
                /\ resp'.body.kmSinceOilChange = totalKm - Watermark(plate)
                /\ resp'.body.needsOilChange = (totalKm - Watermark(plate) >= 10000)
  ]_vars

\* After an oil change of A at 100 (its history entry is stored) the query for
\* A, whose one completed trip has 10100 km, answers 10000 km since the change
\* and raises the alert.
C22_Witness ==
  /\ resp.op = "getMaintenance" /\ resp.status = 200
  /\ resp.body.plate = <<"A">>
  /\ \E h \in history : h.plate = <<"A">> /\ h.km = 100
  /\ oil[<<"A">>] = 100
  /\ resp.body.totalKm = 10100
  /\ resp.body.kmSinceOilChange = 10000
  /\ resp.body.needsOilChange

\* C23: an oil change by an authenticated caller whose currentKm is missing,
\* zero or negative is answered 400 and changes neither the watermarks nor the
\* maintenance history.
C23_PositiveKm ==
  [][\A r \in Reqs :
       Begins(r, "postOilChange", {"oilHistory"}) =>
         \A plate \in ParamPlates, currentKm \in CurrentKms :
           ((currentKm = <<>> \/ currentKm[1] <= 0)
            /\ \E token \in Users, date \in Dates :
                 PostOilChangeSave(r, token, plate, currentKm, FALSE, date))
             => /\ resp'.op = "postOilChange" /\ resp'.status = 400
                /\ oil' = oil /\ history' = history
  ]_vars

\* C24: the maintenance history is append-only.  Every entry of the history
\* is in the history after every step, unchanged, whatever the step is (an oil
\* change, a step of a rename, a step of a vehicle delete), and no step gives
\* two contents to one key history:maintenance:<plate>:<id>.
C24_HistoryAppendOnly ==
  [][/\ \A h \in history : h \in history'
     /\ \A h1 \in history', h2 \in history' :
          (h1.plate = h2.plate /\ h1.id = h2.id) => h1 = h2
  ]_vars

\* An oil change of A was added to the first entry, and vehicle:A and its
\* watermark are gone (deleted, or renamed away) after a mutation answered 200.
C24_Witness ==
  /\ FirstEntry \in history
  /\ \E h \in history : h # FirstEntry /\ h.plate = <<"A">>
  /\ <<"A">> \notin DOMAIN vehicleRows
  /\ <<"A">> \notin DOMAIN oil
  /\ resp.op \in {"deleteVehicle", "putVehicle"} /\ resp.status = 200

\* C25: a failed scan of the trip records is answered 500.  A POST /trips with
\* a complete body whose scan fails answers 500 and goes on to no write, and a
\* GET /vehicles whose trip scan fails answers 500.
C25_FailedScanIs500 ==
  [][\A r \in Reqs :
       /\ Begins(r, "postTrips", {"postUpsertTrip"}) =>
            \A token \in Creators, vehiclePlate \in BodyPlates \ {""},
               kmStart \in KmStarts \ {<<>>}, date \in Dates :
              PostTripsScan(r, token, vehiclePlate, kmStart, TRUE, <<>>, date)
                => resp'.op = "postTrips" /\ resp'.status = 500 /\ pc'[r] = "idle"
       /\ Begins(r, "getVehicles", {}) =>
            \A token \in Creators :
              GetVehiclesScan(r, token, FALSE, TRUE, <<>>) => resp'.status = 500
  ]_vars

\* C26: a deleted trip stays deleted.  Ids are never handed out twice, so a
\* record trip:<id> that a step adds is the one that the POST /trips holding
\* that id writes; no other step, in particular not the upsert of a
\* PUT /trips/:id/complete that read the trip before it was deleted, brings a
\* record into the store.
C26_DeletedStaysDeleted ==
  [][\A i \in DOMAIN trips' \ DOMAIN trips :
       \E r \in Reqs : pc[r] = "postUpsertTrip" /\ loc[r].tripId = i
  ]_vars

\* Trip T was created by a POST /trips that succeeded (record and index row
\* written), is still in progress, and no trip of its plate was created after
\* it.
StartedLast(T) ==
  /\ T \in DOMAIN trips
  /\ <<trips[T].userId, T>> \in userTrip
  /\ trips[T].status = "in_progress"
  /\ \A j \in PlateTrips(trips, trips[T].vehiclePlate) : j <= T

\* What the resolver of GET /vehicles reports for the plate of T, whatever the
\* order in which the scan returns the rows.
ReportsActive(T) ==
  \A order \in Orders(DOMAIN trips) :
    LET a == VehiclesWithStatus(RowsIn(order))[trips[T].vehiclePlate]
    IN  ~a.isAvailable /\ a.activeTrip = <<T>>

C28_ForceUnlockFrees ==
  [][\A r \in Reqs :
       (pc[r] = "deleteTripRow" /\ loc[r].tripId \in DOMAIN trips
        /\ loc[r].tripId \notin DOMAIN trips') =>
         LET T == loc[r].tripId
             P == trips[T].vehiclePlate
         IN  (\E order \in Orders(DOMAIN trips) :
                VehiclesWithStatus(RowsIn(order))[P].activeTrip = <<T>>)
             => \A after \in Orders(DOMAIN trips') :
                  VehiclesWithStatus([i \in 1..Len(after) |-> trips'[after[i]]])[P].isAvailable
  ]_vars

\* C29: a rename keeps the availability of the vehicle.  When a rename of A to
\* B answers 200 and the resolver reports A unavailable with active trip T on
\* the trips of the store, then it reports B unavailable with active trip T,
\* and the availability check of POST /trips finds B's latest trip in progress
\* (and answers 409).
C29_RenameKeepsAvailability ==
  [][\A r \in Reqs :
       (pc[r] \in RenameLabels /\ resp'.op = "putVehicle" /\ resp'.status = 200) =>
         LET A == JoinChars(loc[r].plateParam)
             B == JoinChars(loc[r].plate)
         IN  \A order \in Orders(DOMAIN trips) :
               LET before == VehiclesWithStatus(RowsIn(order))[A]
                   after  == VehiclesWithStatus([i \in 1..Len(order) |-> trips'[order[i]]])[B]
                   latest == PostLatestTrip([i \in 1..Len(order) |-> trips'[order[i]]], B)
               IN  ~before.isAvailable =>
                     /\ ~after.isAvailable /\ after.activeTrip = before.activeTrip
                     /\ latest # <<>> /\ latest[1].status = "in_progress"
  ]_vars

\* C30: the hierarchy of user deletion.  A requester who is neither admin nor
\* super_admin is answered 403 and an admin-tier requester who names their own
\* account is answered 400, both in the first step; an admin whose target is
\* found to be an admin or a super_admin is answered 403; in each of these
\* cases the users are as they were.  A user disappears only in the delete step
\* of a request of another user who is super_admin, or admin with a target that
\* is neither admin nor super_admin.
C30_DeletionHierarchy ==
  [][/\ \A r \in Reqs :
          /\ Begins(r, "deleteUser", {"userFetch"}) =>
               \A token \in Users, targetUserId \in Accounts :
                 DeleteUserCheck(r, token, targetUserId) =>
                   /\ ~IsAdminTier(RoleOf(token)) =>
                        resp'.op = "deleteUser" /\ resp'.status = 403 /\ roles' = roles
                   /\ (IsAdminTier(RoleOf(token)) /\ token = targetUserId) =>
                        resp'.op = "deleteUser" /\ resp'.status = 400 /\ roles' = roles
          /\ (pc[r] = "userFetch" /\ pc'[r] # "userFetch"
              /\ loc[r].requesterRole = "admin" /\ IsAdminTier(roles[loc[r].target])) =>
               /\ resp'.op = "deleteUser" /\ resp'.status \in {403, 404}
               /\ roles' = roles
     /\ \A u \in Accounts :
          (roles[u] # "none" /\ roles'[u] = "none") =>
            \E r \in Reqs :
              /\ pc[r] = "userDelete" /\ loc[r].target = u
              /\ loc[r].user # u
              /\ loc[r].requesterRole = RoleOf(loc[r].user)
              /\ \/ loc[r].requesterRole = "super_admin"
                 \/ loc[r].requesterRole = "admin" /\ ~IsAdminTier(roles[u])
  ]_vars

\* An admin was refused the deletion of another admin or of the super_admin,
\* and every account is still there.
C30_Witness ==
  /\ resp.op = "deleteUser" /\ resp.status = 403 /\ resp.body = DriversOnlyBody
  /\ \A u \in Users : roles[u] # "none"

\* The server rows keep their shape.
ServerTypeOK ==
  /\ \A p \in DOMAIN vehicleRows : vehicleRows[p].plate \in Seq(PlateChars)
  /\ settings \in {<<>>, <<FALSE>>, <<TRUE>>}
  /\ calls \subseteq {"identity", "store"}

TypeOK ==
  /\ DOMAIN trips \subseteq 1..MaxRequests
  /\ userTrip \subseteq Users \X (1..(MaxRequests + 1))
  /\ now \in 1..(MaxRequests + 1)
  /\ served \in 0..MaxRequests

====
